---- MODULE Spec2Model ----
(***************************************************************************)
(* Diff-based workout program assembly (program-diff-patcher and its       *)
(* transform wrapper).  Objects live in a heap so that cloning, aliasing   *)
(* and in-place mutation are visible: a week, day, set group or set is an  *)
(* address into the corresponding table of the heap.                       *)
(***************************************************************************)
EXTENDS Integers, Sequences, FiniteSets, TLC

VARIABLES heap,           \* the objects: weeks, days, set groups and sets by address
          rawInput,       \* the argument of assembleWeeksFromDiffsTransform
          given,          \* the JSON value of the arguments when the call was made
          pc,             \* where the call is
          durationWeeks, weeks, weekNum, clonedWeek,   \* locals of the call
          changeIdx,      \* position of applyWeekDiff in diff.changes
          program         \* the program returned

\* validateWeeksConsistency: its locals and the report it returns
VARIABLES errors, auditIdx, report

\* ExerciseMatcher: the fields of the object, the call in progress and its outcome
VARIABLES catalog, catalogByName, catalogByNormalizedName, catalogById,
          mpc,                    \* where the matcher is
          args,                   \* the arguments of the call in progress
          result,                 \* what the last call returned or threw
          correctedSetGroups, validCount, correctedCount,   \* locals of processSetGroups
          logged                  \* the logger calls made so far

\* hydrateSetGroups: the array it is called with and the array it returns
VARIABLES hpc, hydrateArg, hydrated

\* workout tracking: the workout_sessions table, the clock of the database,
\* and the calls in progress, one per caller
VARIABLES workout_sessions, now, calls

patcherVars == <<heap, rawInput, given, pc, durationWeeks, weeks, weekNum, clonedWeek,
                 changeIdx, program>>

auditVars == <<errors, auditIdx, report>>

matcherVars == <<catalog, catalogByName, catalogByNormalizedName, catalogById, mpc, args,
                 result, correctedSetGroups, validCount, correctedCount, logged>>

hydrateVars == <<hpc, hydrateArg, hydrated>>

trackingVars == <<workout_sessions, now, calls>>

vars == <<heap, rawInput, given, pc, durationWeeks, weeks, weekNum, clonedWeek,
          changeIdx, program, auditVars, matcherVars, hydrateVars, trackingVars>>

(* ------------------------------ bounds --------------------------------- *)

MaxWeeks == 5

MaxChanges == 2

(* ----------------------- absent optional values ------------------------ *)

\* an optional number that is undefined (weight?, rpe?, rest?, count?, durationWeeks?)
Undef == -1

\* an optional string that is undefined (notes?, tempo?)
UndefStr == "<undefined>"

\* JavaScript truthiness of an optional number: undefined and 0 are falsy
Falsy(x) == x = Undef \/ x = 0

\* Math.round of n / d for n >= 0 and d > 0
RoundDiv(n, d) == (2 * n + d) \div (2 * d)

(* ------------------------------- heap ---------------------------------- *)

EmptyHeap == [sets |-> <<>>, groups |-> <<>>, days |-> <<>>, weeks |-> <<>>]

ReadSets(h, addrs) == [i \in 1..Len(addrs) |-> h.sets[addrs[i]]]

ReadGroup(h, a) == [h.groups[a] EXCEPT !.sets = ReadSets(h, @)]

ReadDay(h, a) ==
    [h.days[a] EXCEPT !.setGroups = [i \in 1..Len(@) |-> ReadGroup(h, @[i])]]

\* the JSON value of the week stored at address a
ReadWeek(h, a) ==
    [h.weeks[a] EXCEPT !.days = [i \in 1..Len(@) |-> ReadDay(h, @[i])]]

AllocSets(h, vs) ==
    [h |-> [h EXCEPT !.sets = @ \o vs],
     addrs |-> [i \in 1..Len(vs) |-> Len(h.sets) + i]]

AllocGroup(h, g) ==
    LET r == AllocSets(h, g.sets)
    IN  [h |-> [r.h EXCEPT !.groups = Append(@, [g EXCEPT !.sets = r.addrs])],
         addr |-> Len(h.groups) + 1]

RECURSIVE AllocGroups(_, _)
AllocGroups(h, gs) ==
    IF Len(gs) = 0 THEN [h |-> h, addrs |-> <<>>]
    ELSE LET r == AllocGroup(h, Head(gs))
             rest == AllocGroups(r.h, Tail(gs))
         IN  [h |-> rest.h, addrs |-> <<r.addr>> \o rest.addrs]

AllocDay(h, d) ==
    LET r == AllocGroups(h, d.setGroups)
    IN  [h |-> [r.h EXCEPT !.days = Append(@, [d EXCEPT !.setGroups = r.addrs])],
         addr |-> Len(h.days) + 1]

RECURSIVE AllocDays(_, _)
AllocDays(h, ds) ==
    IF Len(ds) = 0 THEN [h |-> h, addrs |-> <<>>]
    ELSE LET r == AllocDay(h, Head(ds))
             rest == AllocDays(r.h, Tail(ds))
         IN  [h |-> rest.h, addrs |-> <<r.addr>> \o rest.addrs]

\* store the JSON value w as freshly allocated objects
AllocWeek(h, w) ==
    LET r == AllocDays(h, w.days)
    IN  [h |-> [r.h EXCEPT !.weeks = Append(@, [w EXCEPT !.days = r.addrs])],
         addr |-> Len(h.weeks) + 1]

(* --------------------------- program-diff-patcher ---------------------- *)

WEEK_PHASES ==
    (1 :> "accumulation" @@ 2 :> "accumulation" @@
     3 :> "intensification" @@ 4 :> "realization")


\* the fallback phase taken for a deload instead of an accumulation week
WeekPhaseDeload(n) == IF n \in DOMAIN WEEK_PHASES THEN WEEK_PHASES[n] ELSE "deload"

\* WEEK_PHASES[weekNum] || 'accumulation'
WeekPhase(n) == IF n \in DOMAIN WEEK_PHASES THEN WEEK_PHASES[n] ELSE "accumulation"


\* deepClone as a copy of the top-level object only ({ ...obj })
deepCloneShallow(h, a) ==
    [h |-> [h EXCEPT !.weeks = Append(@, h.weeks[a])], addr |-> Len(h.weeks) + 1]

\* structuredClone of a week: a fresh object for the week and everything below it
deepClone(h, a) == AllocWeek(h, ReadWeek(h, a))

\* structuredClone of one set object
deepCloneSet(s) == s

\* the day taken by its position in days: week.days[change.dayNumber - 1]
FindDayByPosition(h, w, dayNumber) ==
    LET ds == h.weeks[w].days
    IN  IF dayNumber \in 1..Len(ds) THEN ds[dayNumber] ELSE 0

\* week.days.find((d) => d.dayNumber === change.dayNumber): 0 when not found
FindDay(h, w, dayNumber) ==
    LET ds == h.weeks[w].days
        hits == {i \in 1..Len(ds) : h.days[ds[i]].dayNumber = dayNumber}
    IN  IF hits = {} THEN 0
        ELSE ds[CHOOSE i \in hits : \A j \in hits : i <= j]


\* the index clamped to the last set group of the day
FindSetGroupClamped(h, day, exerciseIndex) ==
    IF day = 0 THEN 0
    ELSE LET gs == h.days[day].setGroups
         IN  IF exerciseIndex + 1 \in 1..Len(gs) THEN gs[exerciseIndex + 1]
             ELSE IF Len(gs) > 0 THEN gs[Len(gs)] ELSE 0

\* day.setGroups[change.exerciseIndex]: 0 when the index addresses nothing
FindSetGroup(h, day, exerciseIndex) ==
    IF day = 0 THEN 0
    ELSE LET gs == h.days[day].setGroups
         IN  IF exerciseIndex + 1 \in 1..Len(gs) THEN gs[exerciseIndex + 1] ELSE 0


\* the optional fields assigned without the undefined checks
PatchSetAssignAll(set, change) ==
    [set EXCEPT !.reps = change.reps,
                !.weight = change.weight,
                !.rpe = change.rpe,
                !.restSeconds = change.rest]

\* the optional fields tested for truthiness: if (change.weight) ...
PatchSetTruthy(set, change) ==
    [set EXCEPT !.reps = change.reps,
                !.weight = IF ~Falsy(change.weight) THEN change.weight ELSE @,
                !.rpe = IF ~Falsy(change.rpe) THEN change.rpe ELSE @,
                !.restSeconds = IF ~Falsy(change.rest) THEN change.rest ELSE @]

\* the weight taken from weightLbs when the change has no weight
PatchSetWeightFromLbs(set, change) ==
    [set EXCEPT !.reps = change.reps,
                !.weight = IF change.weight # Undef THEN change.weight
                           ELSE IF change.weightLbs # Undef
                           THEN (change.weightLbs * 100) \div 220 ELSE @,
                !.rpe = IF change.rpe # Undef THEN change.rpe ELSE @,
                !.restSeconds = IF change.rest # Undef THEN change.rest ELSE @]

\* the body of setGroup.sets.forEach
PatchSet(set, change) ==
    [set EXCEPT !.reps = change.reps,
                !.weight = IF change.weight # Undef THEN change.weight ELSE @,
                !.rpe = IF change.rpe # Undef THEN change.rpe ELSE @,
                !.restSeconds = IF change.rest # Undef THEN change.rest ELSE @]

\* the literal used as baseSet when the group has no set
DefaultBaseSet(change) ==
    [setNumber |-> 1,
     reps |-> change.reps,
     weight |-> IF Falsy(change.weight) THEN 0 ELSE change.weight,
     weightUnit |-> "kg",
     rpe |-> Undef,
     restSeconds |-> IF Falsy(change.rest) THEN 60 ELSE change.rest,
     tempo |-> UndefStr,
     intensityPercent |-> Undef]


\* the regenerated set without the three conditional spreads
RegeneratedSetBaseOnly(baseSet, change, i) ==
    [baseSet EXCEPT !.setNumber = i, !.reps = change.reps]

\* one element of Array.from({ length: change.count }, ...)
RegeneratedSet(baseSet, change, i) ==
    [deepCloneSet(baseSet) EXCEPT
        !.setNumber = i,
        !.reps = change.reps,
        !.weight = IF change.weight # Undef THEN change.weight ELSE @,
        !.rpe = IF change.rpe # Undef THEN change.rpe ELSE @,
        !.restSeconds = IF change.rest # Undef THEN change.rest ELSE @]

\* the count branch building the i-th new set from the i-th old set where
\* there is one
RegenerateSetsEachFromItsOwn(h, g, change) ==
    LET old == h.groups[g].sets
        baseSet(i) == IF i <= Len(old) THEN h.sets[old[i]]
                      ELSE IF Len(old) > 0 THEN h.sets[old[1]] ELSE DefaultBaseSet(change)
        r == AllocSets(h, [i \in 1..change.count |-> RegeneratedSet(baseSet(i), change, i)])
    IN  [r.h EXCEPT !.groups[g].sets = r.addrs]

\* the count branch of applyChange, on the heap left by the forEach
RegenerateSets(h, g, change) ==
    LET old == h.groups[g].sets
        baseSet == IF Len(old) > 0 THEN h.sets[old[1]] ELSE DefaultBaseSet(change)
        r == AllocSets(h, [i \in 1..change.count |-> RegeneratedSet(baseSet, change, i)])
    IN  [r.h EXCEPT !.groups[g].sets = r.addrs]


\* applyChange that takes a set group regenerated to no set out of the day
applyChangeDroppingEmptied(h, w, change) ==
    LET day == FindDay(h, w, change.dayNumber)
        g == FindSetGroup(h, day, change.exerciseIndex)
    IN  IF day = 0 THEN h
        ELSE IF g = 0 THEN h
        ELSE LET ss == h.groups[g].sets
                 patched == [a \in 1..Len(h.sets) |->
                               IF \E i \in 1..Len(ss) : ss[i] = a
                               THEN PatchSet(h.sets[a], change) ELSE h.sets[a]]
                 h1 == [h EXCEPT !.sets = patched]
             IN  IF change.count # Undef /\ change.count # Len(ss)
                 THEN IF change.count = 0
                      THEN [h1 EXCEPT !.days[day].setGroups = SelectSeq(@, LAMBDA x : x # g)]
                      ELSE RegenerateSets(h1, g, change)
                 ELSE h1

applyChange(h, w, change) ==
    LET day == FindDay(h, w, change.dayNumber)
        g == FindSetGroup(h, day, change.exerciseIndex)
    IN  IF day = 0 THEN h
        ELSE IF g = 0 THEN h
        ELSE LET ss == h.groups[g].sets
                 patched == [a \in 1..Len(h.sets) |->
                               IF \E i \in 1..Len(ss) : ss[i] = a
                               THEN PatchSet(h.sets[a], change) ELSE h.sets[a]]
                 h1 == [h EXCEPT !.sets = patched]
             IN  IF change.count # Undef /\ change.count # Len(ss)
                 THEN RegenerateSets(h1, g, change)
                 ELSE h1

\* if (diff.notes) week.notes = diff.notes
applyNotes(h, w, diff) ==
    IF diff.notes # UndefStr /\ diff.notes # ""
    THEN [h EXCEPT !.weeks[w].notes = diff.notes]
    ELSE h

RECURSIVE applyChanges(_, _, _)
applyChanges(h, w, changes) ==
    IF Len(changes) = 0 THEN h
    ELSE applyChanges(applyChange(h, w, Head(changes)), w, Tail(changes))

applyWeekDiff(h, w, diff) == applyNotes(applyChanges(h, w, diff.changes), w, diff)


\* the loop cloning the week assembled last instead of the template
LoopSourcePrevious(tpl, ws) == ws[Len(ws)]

\* the week the loop of assembleWeeksFromDiffs starts from
LoopSource(tpl, ws) == tpl

\* const week1 = { ...deepClone(week1Template), weekNumber: 1, phase: WEEK_PHASES[1] }
MakeWeek1(h, tpl) ==
    LET c == deepClone(h, tpl)
        week1 == [c.h.weeks[c.addr] EXCEPT !.weekNumber = 1, !.phase = WEEK_PHASES[1]]
    IN  [h |-> [c.h EXCEPT !.weeks = Append(@, week1)], addr |-> Len(c.h.weeks) + 1]

\* clonedWeek = deepClone(week1Template); clonedWeek.weekNumber = ...; clonedWeek.phase = ...
MakeClonedWeek(h, src, n) ==
    LET c == deepClone(h, src)
    IN  [h |-> [c.h EXCEPT !.weeks[c.addr].weekNumber = n,
                           !.weeks[c.addr].phase = WeekPhase(n)],
         addr |-> c.addr]



\* the value of a key that progressionDiffs does not have
AbsentDiff == [present |-> FALSE, focus |-> "", notes |-> UndefStr, changes |-> <<>>]

\* a week without an entry taking the entry of the week before
DiffForCarried(diffs, n) ==
    IF n \in DOMAIN diffs /\ diffs[n].present THEN diffs[n]
    ELSE IF (n - 1) \in DOMAIN diffs THEN diffs[n - 1]
    ELSE AbsentDiff

\* progressionDiffs[`week${weekNum}`]
DiffFor(diffs, n) == IF n \in DOMAIN diffs THEN diffs[n] ELSE AbsentDiff

(* ------------------------- workout-transforms -------------------------- *)

\* input.durationWeeks ?? 4
DefaultDurationWeeks == 4

ResolveDurationWeeks(d) == IF d = Undef THEN DefaultDurationWeeks ELSE d

NoProgram == [durationWeeks |-> Undef, weeks |-> <<>>,
              metadata |-> [totalWeeks |-> 0, totalDays |-> 0, durationWeeks |-> Undef]]

RECURSIVE SumDays(_, _)
SumDays(h, ws) ==
    IF Len(ws) = 0 THEN 0 ELSE Len(h.weeks[Head(ws)].days) + SumDays(h, Tail(ws))

\* the program literal built by assembleWeeksFromDiffsTransform
MakeProgram(h, ws, d) ==
    [durationWeeks |-> d, weeks |-> ws,
     metadata |-> [totalWeeks |-> Len(ws), totalDays |-> SumDays(h, ws),
                   durationWeeks |-> d]]

(* --------------------------- apply-1rm-weights ------------------------- *)
(* A one-rep max is in kilograms; weightIncrement and the weights of the   *)
(* sets of setGroup.exercises are in hundredths of a kilogram, so that the *)
(* increments 2.5 and 2 are 250 and 200.                                   *)

\* the increment taken when none or a non-positive one is given: 2.5
DefaultWeightIncrement == 250

\* map.set(orm.exerciseId, orm.oneRepMax) for every element: the last one of
\* an exerciseId stays
oneRepMaxArrayToMap(oneRepMaxes) ==
    LET at(id) == {i \in 1..Len(oneRepMaxes) : oneRepMaxes[i].exerciseId = id}
    IN  [id \in {oneRepMaxes[i].exerciseId : i \in 1..Len(oneRepMaxes)} |->
            oneRepMaxes[CHOOSE i \in at(id) : \A j \in at(id) : j <= i].oneRepMax]

\* the body of for (const set of exercise.sets)
EnrichSet(set, userOneRepMax, increment) ==
    IF set.intensityPercent # Undef /\ set.intensityPercent > 0
    THEN IF userOneRepMax # Undef /\ userOneRepMax > 0
         THEN [set EXCEPT !.weight =
                  RoundDiv(set.intensityPercent * userOneRepMax, increment) * increment]
         ELSE [set EXCEPT !.weight = 0]
    ELSE set

\* the body of for (const setGroup of day.setGroups): the sets that are
\* visited are those of setGroup.exercises
EnrichSetGroup(setGroup, oneRepMaxMap, increment) ==
    LET Enriched(exercise) ==
            LET userOneRepMax == IF exercise.exerciseId \in DOMAIN oneRepMaxMap
                                 THEN oneRepMaxMap[exercise.exerciseId] ELSE Undef
            IN  IF exercise.exerciseId = ""
                THEN exercise
                ELSE [exercise EXCEPT !.sets =
                        [k \in 1..Len(exercise.sets) |->
                            EnrichSet(exercise.sets[k], userOneRepMax, increment)]]
    IN  [setGroup EXCEPT !.exercises =
            [i \in 1..Len(setGroup.exercises) |-> Enriched(setGroup.exercises[i])]]

RECURSIVE CloneWeeks(_, _)
CloneWeeks(h, ws) ==
    IF Len(ws) = 0 THEN [h |-> h, addrs |-> <<>>]
    ELSE LET c == deepClone(h, Head(ws))
             rest == CloneWeeks(c.h, Tail(ws))
         IN  [h |-> rest.h, addrs |-> <<c.addr>> \o rest.addrs]

\* the program is cloned and the set groups of the clone are enriched
applyUserOneRepMaxWeights(h, prog, oneRepMaxMap, weightIncrement) ==
    IF Len(prog.weeks) = 0 THEN [h |-> h, program |-> prog]
    ELSE LET c == CloneWeeks(h, prog.weeks)
             increment == IF weightIncrement > 0 THEN weightIncrement
                          ELSE DefaultWeightIncrement
             enriched == [a \in 1..Len(c.h.groups) |->
                            IF a > Len(h.groups)
                            THEN EnrichSetGroup(c.h.groups[a], oneRepMaxMap, increment)
                            ELSE c.h.groups[a]]
         IN  [h |-> [c.h EXCEPT !.groups = enriched],
              program |-> [prog EXCEPT !.weeks = c.addrs]]

(* ------------------------------ inputs --------------------------------- *)

ExSet(n, reps, weight, rpe, rest, tempo) ==
    [setNumber |-> n, reps |-> reps, weight |-> weight, weightUnit |-> "kg",
     rpe |-> rpe, restSeconds |-> rest, tempo |-> tempo, intensityPercent |-> Undef]

GroupA ==
    [exerciseId |-> "ex1", exerciseName |-> "Bench Press", order |-> 1, notes |-> "pause",
     technicalCues |-> <<"elbows in", "pause on the chest">>, exercises |-> <<>>,
     sets |-> <<ExSet(1, 10, 60, 7, 90, "3-1-1"), ExSet(2, 10, 62, Undef, 120, UndefStr),
                ExSet(3, 10, 60, 7, 90, UndefStr)>>]

GroupB ==
    [exerciseId |-> "ex2", exerciseName |-> "Cable Fly", order |-> 2, notes |-> UndefStr,
     technicalCues |-> <<>>, exercises |-> <<>>,
     sets |-> <<>>]

GroupC ==
    [exerciseId |-> "ex3", exerciseName |-> "Squat", order |-> 1, notes |-> UndefStr,
     technicalCues |-> <<"brace">>, exercises |-> <<>>,
     sets |-> <<ExSet(1, 5, 100, 8, 180, UndefStr)>>]

Day(n, name, gs) == [dayNumber |-> n, dayName |-> name, setGroups |-> gs]

Week(n, phase, notes, ds) == [weekNumber |-> n, phase |-> phase, notes |-> notes, days |-> ds]

Templates ==
    { Week(1, "accumulation", UndefStr, <<Day(1, "Push", <<GroupA, GroupB>>)>>),
      Week(7, "deload", "base", <<Day(3, "Legs", <<GroupC>>),
                                  Day(1, "Push", <<GroupA, GroupB>>)>>),
      Week(2, "realization", "base", <<Day(2, "Pull", <<GroupB>>),
                                       Day(3, "Legs", <<GroupC, GroupA>>)>>),
      Week(1, "accumulation", UndefStr, <<>>) }

\* a change whose setGroupIndex is 0 and that has no weightLbs and no intensityPercent
Chg(d, e, reps, weight, rpe, rest, count) ==
    [dayNumber |-> d, exerciseIndex |-> e, setGroupIndex |-> 0, reps |-> reps,
     weight |-> weight, weightLbs |-> Undef, intensityPercent |-> Undef,
     rpe |-> rpe, rest |-> rest, count |-> count]

\* every combination of the fields of one change
Changes ==
    { Chg(d, e, r, w, p, t, c) :
        d \in {1, 2, 3}, e \in {0, 1, 2}, r \in {8}, w \in {Undef, 0, 65},
        p \in {Undef, 0, 8}, t \in {Undef, 0, 90}, c \in {Undef, 0, 1, 3} }

\* the changes that lists of several changes are drawn from
ChangesSmall ==
    { Chg(1, 0, 8, 65, Undef, Undef, Undef),
      Chg(1, 0, 12, Undef, 8, 0, 2),
      Chg(1, 0, 12, Undef, Undef, Undef, Undef),
      Chg(1, 1, 12, Undef, Undef, 0, 3),
      Chg(1, 1, 8, 0, 0, Undef, Undef),
      Chg(1, 2, 12, 0, Undef, Undef, 1),
      Chg(2, 0, 8, 65, Undef, 90, 1),
      Chg(3, 0, 8, Undef, 9, Undef, 2) }

Diff(notes, changes) == [present |-> TRUE, focus |-> "focus", notes |-> notes, changes |-> changes]

SeqsUpTo(S, n) == UNION {[1..k -> S] : k \in 0..n}

DiffKeys == 2..MaxWeeks

OnlyWeek2(diff) == [n \in DiffKeys |-> IF n = 2 THEN diff ELSE AbsentDiff]

\* the week diffs that programs of several weeks are drawn from
TinyDiffs ==
    { AbsentDiff,
      Diff("deload", <<>>),
      Diff("peak", <<Chg(1, 0, 8, 65, Undef, Undef, 2)>>),
      Diff("", <<Chg(2, 1, 12, Undef, 6, Undef, Undef), Chg(3, 0, 8, 0, Undef, 0, 3)>>) }

Input(tpl, hasTemplate, hasDiffs, diffs, d) ==
    [week1Template |-> tpl, hasTemplate |-> hasTemplate, hasDiffs |-> hasDiffs,
     progressionDiffs |-> diffs, durationWeeks |-> d,
     userOneRepMaxes |-> <<>>, weightIncrement |-> Undef]

NoDiffs == [n \in DiffKeys |-> AbsentDiff]

\* one week diff carrying any single change
InputsOneChange ==
    { Input(t, TRUE, TRUE, OnlyWeek2(Diff(UndefStr, <<c>>)), 2) : t \in Templates, c \in Changes }

\* one week diff carrying a list of changes
InputsChangeList ==
    { Input(t, TRUE, TRUE, OnlyWeek2(Diff(n, cs)), 2) :
        t \in Templates, n \in {UndefStr, "", "push"}, cs \in SeqsUpTo(ChangesSmall, MaxChanges) }

\* programs of any duration: the weeks that are assembled draw their diffs
\* from TinyDiffs, the keys past the last week are all absent or all present
InputsManyWeeks ==
    { Input(t, TRUE, TRUE,
            [n \in DiffKeys |-> IF n <= (IF d = Undef THEN DefaultDurationWeeks ELSE d)
                                THEN ds[n] ELSE rest],
            d) :
        t \in Templates, ds \in [DiffKeys -> TinyDiffs],
        rest \in {AbsentDiff, Diff("peak", <<Chg(1, 0, 8, 65, Undef, Undef, 2)>>)},
        d \in {Undef} \cup 0..MaxWeeks }

\* one week diff with a focus of its own and a change carrying a setGroupIndex,
\* a weightLbs and an intensityPercent, in every combination
InputsAdvisory ==
    { Input(t, TRUE, TRUE,
            OnlyWeek2([Diff(UndefStr, <<[c EXCEPT !.setGroupIndex = i, !.weightLbs = lbs,
                                                   !.intensityPercent = p]>>)
                          EXCEPT !.focus = f]),
            2) :
        t \in Templates, f \in {"focus", "volume"},
        c \in {Chg(1, 0, 8, Undef, Undef, Undef, 2), Chg(3, 0, 12, 65, 8, Undef, Undef)},
        i \in {0, 1}, lbs \in {Undef, 143}, p \in {Undef, 80} }

\* a set group whose sets are prescribed by intensityPercent, as the program
\* generator lays a set group out: exerciseId and sets on the group itself
GroupPercent ==
    [exerciseId |-> "ex3", exerciseName |-> "Squat", order |-> 1, notes |-> UndefStr,
     technicalCues |-> <<>>, exercises |-> <<>>,
     sets |-> <<[ExSet(1, 5, 0, 8, 180, UndefStr) EXCEPT !.intensityPercent = 80],
                [ExSet(2, 5, 0, Undef, 180, UndefStr) EXCEPT !.intensityPercent = 0],
                ExSet(3, 5, 40, Undef, 180, UndefStr)>>]

\* a set group that lists its exercises, each with sets of its own
GroupOfExercises ==
    [exerciseId |-> "ex9", exerciseName |-> "Superset", order |-> 2, notes |-> UndefStr,
     technicalCues |-> <<>>,
     exercises |-> <<[exerciseId |-> "ex3",
                      sets |-> <<[intensityPercent |-> 80, weight |-> 0],
                                 [intensityPercent |-> Undef, weight |-> 4000],
                                 [intensityPercent |-> 73, weight |-> 100]>>],
                     [exerciseId |-> "ex9", sets |-> <<[intensityPercent |-> 75, weight |-> 5000]>>],
                     [exerciseId |-> "", sets |-> <<[intensityPercent |-> 75, weight |-> 5000]>>]>>,
     sets |-> <<>>]

TemplatesOneRepMax ==
    { Week(1, "accumulation", UndefStr, <<Day(1, "Legs", <<GroupPercent>>)>>),
      Week(1, "accumulation", UndefStr, <<Day(1, "Legs", <<GroupPercent, GroupOfExercises>>),
                                          Day(2, "Push", <<GroupA>>)>>) }

OneRepMax(id, kg) == [exerciseId |-> id, oneRepMax |-> kg]

\* userOneRepMaxes and weightIncrement are given
InputsOneRepMax ==
    { [Input(t, TRUE, TRUE, OnlyWeek2(diff), d)
          EXCEPT !.userOneRepMaxes = orms, !.weightIncrement = inc] :
        t \in TemplatesOneRepMax,
        diff \in {AbsentDiff, Diff(UndefStr, <<Chg(1, 0, 3, Undef, Undef, Undef, 2)>>)},
        d \in {0, 2},
        orms \in {<<>>, <<OneRepMax("ex3", 100)>>, <<OneRepMax("ex1", 120)>>,
                  <<OneRepMax("ex3", 100), OneRepMax("ex1", 77), OneRepMax("ex3", 0)>>},
        inc \in {Undef, 0, 200, 250} }

\* a required input is missing
InputsMissing ==
    { Input(t, a, b, NoDiffs, 2) : t \in Templates, a \in BOOLEAN, b \in BOOLEAN } \
    { Input(t, TRUE, TRUE, NoDiffs, 2) : t \in Templates }

Inputs ==
    InputsOneChange \cup InputsChangeList \cup InputsManyWeeks \cup InputsAdvisory
        \cup InputsOneRepMax \cup InputsMissing

(* --------------------------- state machine ----------------------------- *)

\* the address the template week gets when the input is loaded
TemplateAddr == 1

\* no audit has been asked for
NoReport == [valid |-> FALSE, errors |-> <<>>, returned |-> FALSE]

AuditIdle ==
    /\ errors = <<>>
    /\ auditIdx = 0
    /\ report = NoReport

\* no match has returned yet
NoResult == [outcome |-> "none"]

\* no matcher has been constructed
MatcherIdle ==
    /\ catalog = <<>>
    /\ catalogByName = <<>>
    /\ catalogByNormalizedName = <<>>
    /\ catalogById = <<>>
    /\ mpc = "none"
    /\ args = <<>>
    /\ result = NoResult
    /\ correctedSetGroups = <<>>
    /\ validCount = 0
    /\ correctedCount = 0
    /\ logged = <<>>

\* hydrateSetGroups has not been called
HydrateIdle ==
    /\ hpc = "none"
    /\ hydrateArg = <<>>
    /\ hydrated = <<>>

\* no session is stored and nobody is calling the tracking service
TrackingIdle ==
    /\ workout_sessions = <<>>
    /\ now = 0
    /\ calls = <<>>

Init ==
    \E inp \in Inputs :
        /\ heap = IF inp.hasTemplate THEN AllocWeek(EmptyHeap, inp.week1Template).h
                  ELSE EmptyHeap
        /\ rawInput = [week1Template |-> IF inp.hasTemplate THEN TemplateAddr ELSE 0,
                       hasDiffs |-> inp.hasDiffs,
                       progressionDiffs |-> inp.progressionDiffs,
                       durationWeeks |-> inp.durationWeeks,
                       userOneRepMaxes |-> inp.userOneRepMaxes,
                       weightIncrement |-> inp.weightIncrement]
        /\ given = [week1Template |-> inp.week1Template,
                    progressionDiffs |-> inp.progressionDiffs]
        /\ pc = "start"
        /\ durationWeeks = Undef
        /\ weeks = <<>>
        /\ weekNum = 0
        /\ clonedWeek = 0
        /\ changeIdx = 0
        /\ program = NoProgram
        /\ AuditIdle
        /\ MatcherIdle
        /\ HydrateIdle
        /\ TrackingIdle

\* if (!week1Template) throw ...; if (!progressionDiffs) throw ...
TransformThrow ==
    /\ pc = "start"
    /\ rawInput.week1Template = 0 \/ ~rawInput.hasDiffs
    /\ pc' = "threw"
    /\ UNCHANGED <<auditVars, matcherVars, hydrateVars, trackingVars, heap, rawInput, given, durationWeeks, weeks, weekNum, clonedWeek, changeIdx, program>>

TransformCall ==
    /\ pc = "start"
    /\ rawInput.week1Template # 0 /\ rawInput.hasDiffs
    /\ durationWeeks' = ResolveDurationWeeks(rawInput.durationWeeks)
    /\ pc' = "week1"
    /\ UNCHANGED <<auditVars, matcherVars, hydrateVars, trackingVars, heap, rawInput, given, weeks, weekNum, clonedWeek, changeIdx, program>>

AssembleWeek1 ==
    /\ pc = "week1"
    /\ LET r == MakeWeek1(heap, rawInput.week1Template)
       IN  /\ heap' = r.h
           /\ weeks' = <<r.addr>>
    /\ weekNum' = 2
    /\ pc' = "loop"
    /\ UNCHANGED <<auditVars, matcherVars, hydrateVars, trackingVars, rawInput, given, durationWeeks, clonedWeek, changeIdx, program>>

CurrentDiff == DiffFor(rawInput.progressionDiffs, weekNum)

CloneWeek ==
    /\ pc = "loop"
    /\ weekNum <= durationWeeks
    /\ LET r == MakeClonedWeek(heap, LoopSource(rawInput.week1Template, weeks), weekNum)
       IN  /\ heap' = r.h
           /\ clonedWeek' = r.addr
    /\ changeIdx' = 1
    /\ pc' = IF CurrentDiff.present THEN "diff" ELSE "push"
    /\ UNCHANGED <<auditVars, matcherVars, hydrateVars, trackingVars, rawInput, given, durationWeeks, weeks, weekNum, program>>

\* the changes taken from the last to the first
ChangeAtFromLast(changes, idx) == changes[Len(changes) + 1 - idx]

\* for (const change of diff.changes): the change of the idx-th iteration
ChangeAt(changes, idx) == changes[idx]

ApplyChangeStep ==
    /\ pc = "diff"
    /\ changeIdx <= Len(CurrentDiff.changes)
    /\ heap' = applyChange(heap, clonedWeek, ChangeAt(CurrentDiff.changes, changeIdx))
    /\ changeIdx' = changeIdx + 1
    /\ UNCHANGED <<auditVars, matcherVars, hydrateVars, trackingVars, rawInput, given, pc, durationWeeks, weeks, weekNum, clonedWeek, program>>

ApplyNotesStep ==
    /\ pc = "diff"
    /\ changeIdx > Len(CurrentDiff.changes)
    /\ heap' = applyNotes(heap, clonedWeek, CurrentDiff)
    /\ pc' = "push"
    /\ UNCHANGED <<auditVars, matcherVars, hydrateVars, trackingVars, rawInput, given, durationWeeks, weeks, weekNum, clonedWeek, changeIdx, program>>

PushWeek ==
    /\ pc = "push"
    /\ weeks' = Append(weeks, clonedWeek)
    /\ weekNum' = weekNum + 1
    /\ clonedWeek' = 0
    /\ changeIdx' = 0
    /\ pc' = "loop"
    /\ UNCHANGED <<auditVars, matcherVars, hydrateVars, trackingVars, heap, rawInput, given, durationWeeks, program>>

ReturnWeeks ==
    /\ pc = "loop"
    /\ weekNum > durationWeeks
    /\ pc' = "assembled"
    /\ UNCHANGED <<auditVars, matcherVars, hydrateVars, trackingVars, heap, rawInput, given, durationWeeks, weeks, weekNum, clonedWeek, changeIdx, program>>

\* the program literal, and the 1RM weights applied to it when
\* userOneRepMaxes is given and not empty
BuildProgram ==
    /\ pc = "assembled"
    /\ LET built == MakeProgram(heap, weeks, durationWeeks)
           weightIncrement == IF rawInput.weightIncrement = Undef
                              THEN DefaultWeightIncrement ELSE rawInput.weightIncrement
           r == IF Len(rawInput.userOneRepMaxes) > 0
                THEN applyUserOneRepMaxWeights(
                         heap, built, oneRepMaxArrayToMap(rawInput.userOneRepMaxes),
                         weightIncrement)
                ELSE [h |-> heap, program |-> built]
       IN  /\ heap' = r.h
           /\ program' = r.program
    /\ pc' = "done"
    /\ UNCHANGED <<auditVars, matcherVars, hydrateVars, trackingVars, rawInput, given, durationWeeks, weeks, weekNum, clonedWeek, changeIdx>>

Next ==
    \/ TransformThrow
    \/ TransformCall
    \/ AssembleWeek1
    \/ CloneWeek
    \/ ApplyChangeStep
    \/ ApplyNotesStep
    \/ PushWeek
    \/ ReturnWeeks
    \/ BuildProgram

Spec == Init /\ [][Next]_vars

(* ------------------------------ properties ----------------------------- *)

Assembled == pc \in {"assembled", "done"}

\* the week returned at index k - 1, as a JSON value
Returned(k) == ReadWeek(heap, weeks[k])

\* progressionDiffs has no (truthy) entry under the key 'week' + n
KeyAbsent(n) ==
    \/ n \notin DOMAIN given.progressionDiffs
    \/ ~given.progressionDiffs[n].present

\* the change names a day and a set-group position that the template has
Addressable(t, c) ==
    \E i \in 1..Len(t.days) :
        /\ t.days[i].dayNumber = c.dayNumber
        /\ \A j \in 1..(i - 1) : t.days[j].dayNumber # c.dayNumber
        /\ c.exerciseIndex + 1 \in 1..Len(t.days[i].setGroups)

\* the number of sets of every set group, day by day
SetCounts(w) ==
    [i \in 1..Len(w.days) |->
        [j \in 1..Len(w.days[i].setGroups) |-> Len(w.days[i].setGroups[j].sets)]]

SameStructure(w, t) ==
    /\ Len(w.days) = Len(t.days)
    /\ \A i \in 1..Len(t.days) :
        /\ w.days[i].dayNumber = t.days[i].dayNumber
        /\ Len(w.days[i].setGroups) = Len(t.days[i].setGroups)
        /\ \A j \in 1..Len(t.days[i].setGroups) :
            /\ w.days[i].setGroups[j].exerciseId = t.days[i].setGroups[j].exerciseId
            /\ w.days[i].setGroups[j].exerciseName = t.days[i].setGroups[j].exerciseName
            /\ w.days[i].setGroups[j].order = t.days[i].setGroups[j].order

\* C1: every week assembled so far has the days of the template, in the same
\* positions with the same dayNumber, and in every day the set groups of the
\* template, position by position, with the same exerciseId, exerciseName and
\* order, whatever the diffs hold (count changes, missing days, indices out
\* of range).
C1_StructurePreserved ==
    \A k \in 1..Len(weeks) : SameStructure(Returned(k), given.week1Template)

\* a two-day template, a diff whose first change names a missing day and whose
\* second change regenerated a set group to another number of sets
C1_Witness ==
    /\ pc = "done"
    /\ Len(weeks) = 2
    /\ Len(given.week1Template.days) = 2
    /\ LET cs == given.progressionDiffs[2].changes
       IN  /\ Len(cs) = 2
           /\ ~Addressable(given.week1Template, cs[1])
           /\ Addressable(given.week1Template, cs[2])
           /\ cs[2].count # Undef
    /\ SetCounts(Returned(2)) # SetCounts(given.week1Template)

\* C2: the array returned has exactly durationWeeks weeks, the program built by
\* the transform has as many weeks as its durationWeeks field says, and that
\* field is 4 when the input does not supply durationWeeks.
C2_WeeksLengthIsDuration ==
    /\ Assembled => Len(weeks) = durationWeeks
    /\ pc = "done" =>
        /\ Len(program.weeks) = program.durationWeeks
        /\ rawInput.durationWeeks = Undef => program.durationWeeks = 4

DaysOf(h, w) == {h.weeks[w].days[i] : i \in 1..Len(h.weeks[w].days)}

GroupsOf(h, w) ==
    UNION {{h.days[d].setGroups[j] : j \in 1..Len(h.days[d].setGroups)} : d \in DaysOf(h, w)}

SetsOf(h, w) ==
    UNION {{h.groups[g].sets[k] : k \in 1..Len(h.groups[g].sets)} : g \in GroupsOf(h, w)}

\* the weeks at addresses a and b have no day, set group or set object in common
Disjoint(h, a, b) ==
    /\ a # b
    /\ DaysOf(h, a) \cap DaysOf(h, b) = {}
    /\ GroupsOf(h, a) \cap GroupsOf(h, b) = {}
    /\ SetsOf(h, a) \cap SetsOf(h, b) = {}

NoSharing ==
    /\ \A k \in 1..Len(weeks) : Disjoint(heap, weeks[k], rawInput.week1Template)
    /\ \A k \in 1..Len(weeks) : \A l \in 1..Len(weeks) :
         k # l => Disjoint(heap, weeks[k], weeks[l])

\* C3: at every point of the call and after it, the template object still has
\* the value it was given with, the diff map still has the value it was given
\* with, and no week assembled shares a day, set group or set object with the
\* template or with another assembled week.
C3_InputsNotMutated ==
    rawInput.week1Template # 0 =>
        /\ ReadWeek(heap, rawInput.week1Template) = given.week1Template
        /\ rawInput.progressionDiffs = given.progressionDiffs
        /\ NoSharing

\* a program of three weeks or more where one diff regenerated sets and
\* overwrote the notes
C3_Witness ==
    /\ pc = "done"
    /\ Len(weeks) >= 3
    /\ \E n \in 2..Len(weeks) :
        /\ Returned(n).notes # given.week1Template.notes
        /\ SetCounts(Returned(n)) # SetCounts(given.week1Template)

\* week 1 assembled alone, on a heap that holds nothing but the template
IsolatedWeek1(t) ==
    LET h0 == AllocWeek(EmptyHeap, t).h
        r == MakeWeek1(h0, TemplateAddr)
    IN  ReadWeek(r.h, r.addr)

\* week n assembled alone from the template and its own diff, on a heap that
\* holds nothing but the template
IsolatedWeek(t, diff, n) ==
    LET h0 == AllocWeek(EmptyHeap, t).h
        c == MakeClonedWeek(h0, TemplateAddr, n)
        h1 == IF diff.present THEN applyWeekDiff(c.h, c.addr, diff) ELSE c.h
    IN  ReadWeek(h1, c.addr)

GivenDiff(n) == IF KeyAbsent(n) THEN AbsentDiff ELSE given.progressionDiffs[n]

\* C4: every returned week is determined by the template and its own diff
\* entry: week 1 is what the template alone gives, and week w is what the
\* template and the entry 'week' + w alone give, whatever the other entries of
\* the diff map are and whatever was assembled before it.
C4_WeekDependsOnOwnDiffOnly ==
    Assembled =>
        \A k \in 1..Len(weeks) :
            Returned(k) = IF k = 1 THEN IsolatedWeek1(given.week1Template)
                          ELSE IsolatedWeek(given.week1Template, GivenDiff(k), k)

\* weeks 2 and 3 were both changed by their diffs, differently
C4_Witness ==
    /\ pc = "done"
    /\ Len(weeks) >= 3
    /\ Returned(2).days # given.week1Template.days
    /\ Returned(3).days # given.week1Template.days
    /\ Returned(2).days # Returned(3).days

\* applyWeekDiff is about to apply the change at changeIdx, and this step does it
ApplyingChange ==
    /\ pc = "diff"
    /\ changeIdx \in 1..Len(GivenDiff(weekNum).changes)
    /\ changeIdx' = changeIdx + 1

StepChange == GivenDiff(weekNum).changes[changeIdx]

\* position in days of the first day of the template with the dayNumber of c
DayPos(t, c) ==
    CHOOSE i \in 1..Len(t.days) :
        /\ t.days[i].dayNumber = c.dayNumber
        /\ \A j \in 1..(i - 1) : t.days[j].dayNumber # c.dayNumber

\* the set group of the week under construction that c addresses, as a value
TargetGroup(h, c) ==
    ReadWeek(h, clonedWeek).days[DayPos(given.week1Template, c)].setGroups[c.exerciseIndex + 1]

\* the set group of the template that c addresses
TemplateGroup(c) ==
    given.week1Template.days[DayPos(given.week1Template, c)].setGroups[c.exerciseIndex + 1]

\* the diff without the changes that address nothing in the template
WithoutSkipped(diff) ==
    [diff EXCEPT !.changes = SelectSeq(@, LAMBDA c : Addressable(given.week1Template, c))]

\* C5: applying a change whose dayNumber names no day of the template, or whose
\* exerciseIndex is no position of that day, changes no object, raises
\* nothing and moves on to the next change; and every week returned is the
\* week that its diff without such changes gives.
C5_UnaddressableChangeSkipped ==
    [][ /\ (ApplyingChange /\ ~Addressable(given.week1Template, StepChange)) =>
            /\ heap' = heap
            /\ pc' = "diff"
            /\ weeks' = weeks /\ clonedWeek' = clonedWeek
        /\ pc' = "done" =>
            \A k \in 2..Len(weeks') :
                ReadWeek(heap', weeks'[k]) =
                    IsolatedWeek(given.week1Template, WithoutSkipped(GivenDiff(k)), k)
      ]_vars

\* a diff of two changes: the first one applied, the second one addressing a
\* position past the last set group of a day that exists
C5_Witness ==
    /\ pc = "done"
    /\ Len(weeks) = 2
    /\ LET cs == given.progressionDiffs[2].changes
           t == given.week1Template
       IN  /\ Len(cs) = 2
           /\ Addressable(t, cs[1])
           /\ ~Addressable(t, cs[2])
           /\ \E i \in 1..Len(t.days) : t.days[i].dayNumber = cs[2].dayNumber
    /\ Returned(2).days # given.week1Template.days

RepsOnly(c) == c.weight = Undef /\ c.rpe = Undef /\ c.rest = Undef /\ c.count = Undef

\* C6: applying a change that carries reps and nothing else to a set group of
\* the week leaves the group with the same number of sets, every set with the
\* reps of the change and with the weight, rpe and restSeconds it had.
C6_RepsOnlyChange ==
    [][ (ApplyingChange /\ Addressable(given.week1Template, StepChange) /\ RepsOnly(StepChange)) =>
            LET b == TargetGroup(heap, StepChange)
                a == TargetGroup(heap', StepChange)
            IN  /\ Len(a.sets) = Len(b.sets)
                /\ \A i \in 1..Len(b.sets) :
                    /\ a.sets[i].reps = StepChange.reps
                    /\ a.sets[i].weight = b.sets[i].weight
                    /\ a.sets[i].rpe = b.sets[i].rpe
                    /\ a.sets[i].restSeconds = b.sets[i].restSeconds
      ]_vars

\* a reps-only change has just been applied to a group whose sets differ in
\* weight and rpe, and they still do
C6_Witness ==
    /\ pc = "diff"
    /\ changeIdx = 2
    /\ LET c == given.progressionDiffs[weekNum].changes[1]
       IN  /\ RepsOnly(c)
           /\ Addressable(given.week1Template, c)
           /\ LET a == TargetGroup(heap, c)
              IN  /\ Len(a.sets) = 3
                  /\ a.sets[1].weight # a.sets[2].weight
                  /\ a.sets[1].rpe # a.sets[2].rpe
                  /\ \A i \in 1..3 : a.sets[i].reps = c.reps /\ a.sets[i].reps # 10

\* C7: after a change is applied to a set group, every set of the group has
\* the weight of the change if it supplies one, the rpe of the change if it
\* supplies one and restSeconds equal to its rest if it supplies one, 0
\* included, with or without a regeneration of the sets.
C7_SuppliedFieldsOnEverySet ==
    [][ (ApplyingChange /\ Addressable(given.week1Template, StepChange)) =>
            LET a == TargetGroup(heap', StepChange)
            IN  \A i \in 1..Len(a.sets) :
                    /\ StepChange.weight # Undef => a.sets[i].weight = StepChange.weight
                    /\ StepChange.rpe # Undef => a.sets[i].rpe = StepChange.rpe
                    /\ StepChange.rest # Undef => a.sets[i].restSeconds = StepChange.rest
      ]_vars

\* a change supplying weight 0, rpe 0 and rest 0 and no count has just been
\* applied to a group of three sets
C7_Witness ==
    /\ pc = "diff"
    /\ changeIdx = 2
    /\ LET c == given.progressionDiffs[weekNum].changes[1]
       IN  /\ c.weight = 0 /\ c.rpe = 0 /\ c.rest = 0 /\ c.count = Undef
           /\ Addressable(given.week1Template, c)
           /\ LET a == TargetGroup(heap, c)
              IN  /\ Len(a.sets) = 3
                  /\ \A i \in 1..3 : a.sets[i].weight = 0 /\ a.sets[i].restSeconds = 0

\* C8: applying a change whose count differs from the number of sets of the
\* group leaves the group with count sets numbered 1..count, each with the
\* reps of the change and the weight, rpe and rest it supplies; built from a
\* group without sets they are in kg, with weight 0 and rest 60 where the
\* change supplies none.
C8_CountRegeneration ==
    [][ ( /\ ApplyingChange
          /\ Addressable(given.week1Template, StepChange)
          /\ StepChange.count # Undef
          /\ StepChange.count # Len(TargetGroup(heap, StepChange).sets) ) =>
            LET b == TargetGroup(heap, StepChange)
                a == TargetGroup(heap', StepChange)
                c == StepChange
            IN  /\ Len(a.sets) = c.count
                /\ \A i \in 1..Len(a.sets) :
                    /\ a.sets[i].setNumber = i
                    /\ a.sets[i].reps = c.reps
                    /\ c.weight # Undef => a.sets[i].weight = c.weight
                    /\ c.rpe # Undef => a.sets[i].rpe = c.rpe
                    /\ c.rest # Undef => a.sets[i].restSeconds = c.rest
                    /\ Len(b.sets) = 0 =>
                        /\ a.sets[i].weightUnit = "kg"
                        /\ c.weight = Undef => a.sets[i].weight = 0
                        /\ c.rest = Undef => a.sets[i].restSeconds = 60
      ]_vars

\* a change with count 3 and neither weight nor rest has just been applied to
\* a group that had no set
C8_Witness ==
    /\ pc = "diff"
    /\ changeIdx = 2
    /\ LET c == given.progressionDiffs[weekNum].changes[1]
       IN  /\ c.count = 3 /\ c.weight = Undef /\ c.rest = Undef
           /\ Addressable(given.week1Template, c)
           /\ Len(TemplateGroup(c).sets) = 0
           /\ LET a == TargetGroup(heap, c)
              IN  /\ Len(a.sets) = 3
                  /\ \A i \in 1..3 : a.sets[i].weight = 0 /\ a.sets[i].restSeconds = 60

\* C9: a week from the second on whose key is missing from the diff map is the
\* template in every field but weekNumber and phase, and the call does not
\* fail on it.
C9_AbsentDiffLeavesTemplate ==
    /\ \A n \in 2..Len(weeks) :
        KeyAbsent(n) =>
            [Returned(n) EXCEPT !.weekNumber = given.week1Template.weekNumber,
                                !.phase = given.week1Template.phase]
                = given.week1Template
    /\ (rawInput.week1Template # 0 /\ rawInput.hasDiffs) => pc # "threw"

\* week 3 has no diff and equals the template, between a week 2 that its diff
\* changed and a week 4 that has a diff
C9_Witness ==
    /\ pc = "done"
    /\ Len(weeks) >= 4
    /\ ~KeyAbsent(2) /\ KeyAbsent(3) /\ ~KeyAbsent(4)
    /\ Returned(2).days # given.week1Template.days
    /\ Returned(3).days = given.week1Template.days
    /\ Len(given.week1Template.days) > 0

PhaseTable(n) ==
    CASE n = 1 -> "accumulation"
      [] n = 2 -> "accumulation"
      [] n = 3 -> "intensification"
      [] n = 4 -> "realization"
      [] OTHER -> "accumulation"

\* C10: the week at index k - 1 of the output has weekNumber k and the phase of
\* the table accumulation, accumulation, intensification, realization, then
\* accumulation for every later week, whatever weekNumber and phase the
\* template carries.
C10_WeekNumberAndPhase ==
    \A k \in 1..Len(weeks) :
        /\ Returned(k).weekNumber = k
        /\ Returned(k).phase = PhaseTable(k)

\* five weeks from a template that says week 7, deload
C10_Witness ==
    /\ pc = "done"
    /\ Len(weeks) >= 5
    /\ given.week1Template.weekNumber = 7
    /\ given.week1Template.phase = "deload"

(* ----------------------- validateWeeksConsistency ----------------------- *)

\* the longest weeks array that is audited
MaxAuditWeeks == 3

\* week1.days.map((d) => d.setGroups.length)
ExpectedExercisesPerDay(h, w) ==
    [i \in 1..Len(h.weeks[w].days) |-> Len(h.days[h.weeks[w].days[i]].setGroups)]

\* expectedExercisesPerDay[dayIdx] ?? 0
ExpectedAt(expected, dayIdx) ==
    IF dayIdx <= Len(expected) THEN expected[dayIdx] ELSE 0

\* ['No weeks in program']
NoWeeksError == [kind |-> "empty", week |-> 0, day |-> 0, got |-> 0, expected |-> 0]

\* `Week ${i + 1} has ${week.days.length} days, expected ${expectedDays}`
DayCountError(k, got, expected) ==
    [kind |-> "days", week |-> k, day |-> 0, got |-> got, expected |-> expected]

\* `Week ${i + 1} Day ${dayIdx + 1} has ${n} exercises, expected ${expected}`
ExerciseCountError(k, d, got, expected) ==
    [kind |-> "exercises", week |-> k, day |-> d, got |-> got, expected |-> expected]

\* week.days.forEach((day, dayIdx) => ...), from day d on
RECURSIVE DayErrors(_, _, _, _, _)
DayErrors(h, w, k, expected, d) ==
    IF d > Len(h.weeks[w].days) THEN <<>>
    ELSE LET got == Len(h.days[h.weeks[w].days[d]].setGroups)
             want == ExpectedAt(expected, d)
         IN  (IF got # want THEN <<ExerciseCountError(k, d, got, want)>> ELSE <<>>)
             \o DayErrors(h, w, k, expected, d + 1)

\* the body of the loop without the comparison of the day counts
WeekErrorsSkippingDayCount(h, ws, k) ==
    DayErrors(h, ws[k], k, ExpectedExercisesPerDay(h, ws[1]), 1)

\* the body of the loop for weeks[i], the k-th week: the errors it pushes
WeekErrors(h, ws, k) ==
    LET expectedDays == Len(h.weeks[ws[1]].days)
        got == Len(h.weeks[ws[k]].days)
    IN  (IF got # expectedDays THEN <<DayCountError(k, got, expectedDays)>> ELSE <<>>)
        \o DayErrors(h, ws[k], k, ExpectedExercisesPerDay(h, ws[1]), 1)

\* a day with c set groups
AuditDay(n, c) == Day(n, "Day", [j \in 1..c |-> GroupC])

\* the weeks that are audited: up to two days of none or one set group
AuditWeeks ==
    { Week(1, "accumulation", UndefStr, [i \in 1..Len(cs) |-> AuditDay(i, cs[i])]) :
        cs \in SeqsUpTo({0, 1}, 2) }

AuditInputs == SeqsUpTo(AuditWeeks, MaxAuditWeeks)

\* the weeks of an array as objects of the heap
RECURSIVE AllocWeeks(_, _)
AllocWeeks(h, ws) ==
    IF ws = <<>> THEN [h |-> h, addrs |-> <<>>]
    ELSE LET r == AllocWeek(h, Head(ws))
             rest == AllocWeeks(r.h, Tail(ws))
         IN  [h |-> rest.h, addrs |-> <<r.addr>> \o rest.addrs]

InitAudit ==
    \E ws \in AuditInputs :
        /\ heap = AllocWeeks(EmptyHeap, ws).h
        /\ weeks = AllocWeeks(EmptyHeap, ws).addrs
        /\ given = [weeks |-> ws]
        /\ rawInput = <<>>
        /\ pc = "audit"
        /\ durationWeeks = Undef
        /\ weekNum = 0
        /\ clonedWeek = 0
        /\ changeIdx = 0
        /\ program = NoProgram
        /\ AuditIdle
        /\ MatcherIdle
        /\ HydrateIdle
        /\ TrackingIdle

AuditFrame ==
    UNCHANGED <<heap, rawInput, given, durationWeeks, weeks, weekNum, clonedWeek,
                changeIdx, program, matcherVars, hydrateVars, trackingVars>>

\* if (weeks.length === 0) return { valid: false, errors: ['No weeks in program'] }
AuditEmpty ==
    /\ pc = "audit"
    /\ Len(weeks) = 0
    /\ report' = [valid |-> FALSE, errors |-> <<NoWeeksError>>, returned |-> TRUE]
    /\ pc' = "audited"
    /\ UNCHANGED <<errors, auditIdx>>
    /\ AuditFrame

AuditStart ==
    /\ pc = "audit"
    /\ Len(weeks) # 0
    /\ errors' = <<>>
    /\ auditIdx' = 2
    /\ pc' = "auditLoop"
    /\ UNCHANGED report
    /\ AuditFrame

AuditWeek ==
    /\ pc = "auditLoop"
    /\ auditIdx <= Len(weeks)
    /\ errors' = errors \o WeekErrors(heap, weeks, auditIdx)
    /\ auditIdx' = auditIdx + 1
    /\ UNCHANGED <<pc, report>>
    /\ AuditFrame

\* return { valid: errors.length === 0, errors }
AuditReturn ==
    /\ pc = "auditLoop"
    /\ auditIdx > Len(weeks)
    /\ report' = [valid |-> Len(errors) = 0, errors |-> errors, returned |-> TRUE]
    /\ pc' = "audited"
    /\ UNCHANGED <<errors, auditIdx>>
    /\ AuditFrame

NextAudit ==
    \/ AuditEmpty
    \/ AuditStart
    \/ AuditWeek
    \/ AuditReturn

SpecAudit == InitAudit /\ [][NextAudit]_vars

\* the number of set groups of each day of a week value
GroupCounts(w) == [i \in 1..Len(w.days) |-> Len(w.days[i].setGroups)]

\* the weeks the audit was given, as values now
AuditedNow == [i \in 1..Len(weeks) |-> ReadWeek(heap, weeks[i])]

\* C11: validateWeeksConsistency always returns a report and never changes the
\* weeks: for a non-empty array valid is true exactly when every later week has
\* as many days as weeks[0] and, day by day, as many set groups; valid is true
\* iff errors is empty, so an inconsistent array has at least one error; an
\* empty array is reported invalid.
C11_AuditReport ==
    /\ AuditedNow = given.weeks
    /\ pc = "audited" =>
          /\ report.returned
          /\ report.valid <=> Len(report.errors) = 0
          /\ Len(given.weeks) = 0 => ~report.valid
          /\ Len(given.weeks) # 0 =>
                (report.valid <=>
                    \A k \in 2..Len(given.weeks) :
                        GroupCounts(given.weeks[k]) = GroupCounts(given.weeks[1]))

\* an audit of three weeks has returned: the second week is like the first, the
\* third has one more day, without set groups, and the report is invalid
C11_Witness ==
    /\ pc = "audited"
    /\ Len(given.weeks) = 3
    /\ GroupCounts(given.weeks[1]) = <<1>>
    /\ GroupCounts(given.weeks[2]) = <<1>>
    /\ GroupCounts(given.weeks[3]) = <<1, 0>>
    /\ ~report.valid
    /\ Len(report.errors) = 1

(* ---------------------------- exercise-matcher -------------------------- *)

\* A string is the sequence of its characters.

FUZZY_MATCH_MAX_DISTANCE == 5

\* confidences are in hundredths: 0.1 is 10
CONFIDENCE_REDUCTION_PER_DISTANCE == 10

FUZZY_MATCH_MIN_CONFIDENCE == 50

UpperCase == <<"A", "B", "C", "D", "E", "F", "G", "H", "I", "J", "K", "L", "M",
               "N", "O", "P", "Q", "R", "S", "T", "U", "V", "W", "X", "Y", "Z">>

LowerCase == <<"a", "b", "c", "d", "e", "f", "g", "h", "i", "j", "k", "l", "m",
               "n", "o", "p", "q", "r", "s", "t", "u", "v", "w", "x", "y", "z">>

Digits == {"0", "1", "2", "3", "4", "5", "6", "7", "8", "9"}

\* \s
IsSpace(c) == c \in {" ", "\t", "\n"}

\* the lower-case letter of each upper-case letter
LowerOf == [c \in {UpperCase[k] : k \in 1..26} |->
              LowerCase[CHOOSE k \in 1..26 : UpperCase[k] = c]]

\* String.prototype.toLowerCase
toLowerCase(s) ==
    [i \in 1..Len(s) |-> IF s[i] \in DOMAIN LowerOf THEN LowerOf[s[i]] ELSE s[i]]

\* String.prototype.includes
Includes(s, sub) ==
    \E i \in 0..(Len(s) - Len(sub)) : SubSeq(s, i + 1, i + Len(sub)) = sub

\* .replace(/\(.*?\)/g, ''): from each "(" to the nearest ")" on the same line
RECURSIVE StripParenthetical(_)
StripParenthetical(s) ==
    IF s = <<>> THEN <<>>
    ELSE LET closing == { j \in 2..Len(s) :
                            /\ s[j] = ")"
                            /\ \A k \in 2..(j - 1) : s[k] # ")" /\ s[k] # "\n" }
         IN  IF Head(s) = "(" /\ closing # {}
             THEN StripParenthetical(SubSeq(s, (CHOOSE j \in closing : TRUE) + 1, Len(s)))
             ELSE <<Head(s)>> \o StripParenthetical(Tail(s))

\* [a-z0-9\s]
PlainChars == {LowerCase[k] : k \in 1..26} \cup Digits \cup {" ", "\t", "\n"}

IsPlainChar(c) == c \in PlainChars

\* .replace(/\s+/g, ' ')
RECURSIVE CollapseSpaces(_)
CollapseSpaces(s) ==
    IF s = <<>> THEN <<>>
    ELSE IF IsSpace(Head(s))
         THEN IF Len(s) > 1 /\ IsSpace(s[2])
              THEN CollapseSpaces(Tail(s))
              ELSE <<" ">> \o CollapseSpaces(Tail(s))
         ELSE <<Head(s)>> \o CollapseSpaces(Tail(s))

\* String.prototype.trim
RECURSIVE Trim(_)
Trim(s) ==
    IF s = <<>> THEN <<>>
    ELSE IF IsSpace(Head(s)) THEN Trim(Tail(s))
    ELSE IF IsSpace(s[Len(s)]) THEN Trim(SubSeq(s, 1, Len(s) - 1))
    ELSE s

normalizeName(name) ==
    Trim(CollapseSpaces(SelectSeq(StripParenthetical(toLowerCase(name)), IsPlainChar)))

Min3(x, y, z) ==
    IF x <= y /\ x <= z THEN x ELSE IF y <= z THEN y ELSE z

\* the inner loop: row i of the matrix, of which cur holds the columns so far
RECURSIVE LevRow(_, _, _, _)
LevRow(prev, cur, a, bc) ==
    IF Len(cur) = Len(a) + 1 THEN cur
    ELSE LET j == Len(cur)
             cell == IF bc = a[j]
                     THEN prev[j]
                     ELSE Min3(prev[j] + 1, cur[j] + 1, prev[j + 1] + 1)
         IN  LevRow(prev, Append(cur, cell), a, bc)

\* the outer loop from row i on; prev is row i - 1
RECURSIVE LevRows(_, _, _, _)
LevRows(prev, a, b, i) ==
    IF i > Len(b) THEN prev[Len(a) + 1]
    ELSE LevRows(LevRow(prev, <<i>>, a, b[i]), a, b, i + 1)

levenshteinDistance(a, b) ==
    LevRows([j \in 1..(Len(a) + 1) |-> j - 1], a, b, 1)

\* a Map is the sequence of its entries in insertion order; the values are
\* positions in the catalog, the objects both the array and the maps refer to

MapHas(m, k) == \E i \in 1..Len(m) : m[i].key = k

MapGet(m, k) == m[CHOOSE i \in 1..Len(m) : m[i].key = k].value

\* Map.prototype.set: a key that is present keeps its place and takes the new value
MapSet(m, k, v) ==
    IF MapHas(m, k)
    THEN [i \in 1..Len(m) |-> IF m[i].key = k THEN [key |-> k, value |-> v] ELSE m[i]]
    ELSE Append(m, [key |-> k, value |-> v])

\* an optional string that is given and not empty
TruthyStr(x) == x # UndefStr /\ x # ""

\* the constructor's loop over the entries from position i on, keeping the first
\* entry set for a name
RECURSIVE BuildMapsFirstWins(_, _, _)
BuildMapsFirstWins(cat, i, maps) ==
    IF i > Len(cat) THEN maps
    ELSE LET lower == toLowerCase(cat[i].name)
             norm == normalizeName(cat[i].name)
         IN  BuildMapsFirstWins(cat, i + 1,
               [byName |-> IF MapHas(maps.byName, lower) THEN maps.byName
                           ELSE MapSet(maps.byName, lower, i),
                byNormalizedName |-> IF MapHas(maps.byNormalizedName, norm)
                                     THEN maps.byNormalizedName
                                     ELSE MapSet(maps.byNormalizedName, norm, i),
                byId |-> MapSet(maps.byId, cat[i].id, i)])

\* for (const ex of catalog) { ...set(...) }, from position i on
RECURSIVE BuildMaps(_, _, _)
BuildMaps(cat, i, maps) ==
    IF i > Len(cat) THEN maps
    ELSE BuildMaps(cat, i + 1,
           [byName |-> MapSet(maps.byName, toLowerCase(cat[i].name), i),
            byNormalizedName |->
                MapSet(maps.byNormalizedName, normalizeName(cat[i].name), i),
            byId |-> MapSet(maps.byId, cat[i].id, i)])

\* no tier result
Miss == [outcome |-> "miss"]

\* a MatchResult for the catalog entry at position i
Hit(m, i, matchType, confidence, providedId, wasCorrection) ==
    [outcome |-> "returned",
     exerciseId |-> m.catalog[i].id,
     exerciseName |-> m.catalog[i].name,
     matchType |-> matchType,
     confidence |-> confidence,
     originalId |-> providedId,
     wasCorrection |-> wasCorrection]

\* 1. the provided id is returned only if the name agrees with its entry
ValidIdTierNameChecked(m, q) ==
    IF /\ TruthyStr(q.providedId)
       /\ MapHas(m.catalogById, q.providedId)
       /\ toLowerCase(m.catalog[MapGet(m.catalogById, q.providedId)].name)
            = toLowerCase(q.name)
    THEN [Hit(m, MapGet(m.catalogById, q.providedId), "exact", 100, q.providedId, FALSE)
            EXCEPT !.exerciseId = q.providedId]
    ELSE Miss

\* 1. the provided id is returned without looking it up
ValidIdTierUnchecked(m, q) ==
    IF TruthyStr(q.providedId)
    THEN [outcome |-> "returned", exerciseId |-> q.providedId, exerciseName |-> q.name,
          matchType |-> "exact", confidence |-> 100, originalId |-> q.providedId,
          wasCorrection |-> FALSE]
    ELSE Miss

\* 1. First, check if the provided ID is actually valid
ValidIdTier(m, q) ==
    IF TruthyStr(q.providedId) /\ MapHas(m.catalogById, q.providedId)
    THEN [Hit(m, MapGet(m.catalogById, q.providedId), "exact", 100, q.providedId, FALSE)
            EXCEPT !.exerciseId = q.providedId]
    ELSE Miss

\* 2. Exact name match (case-insensitive)
ExactNameTier(m, q) ==
    LET lowerName == toLowerCase(q.name)
    IN  IF MapHas(m.catalogByName, lowerName)
        THEN Hit(m, MapGet(m.catalogByName, lowerName), "exact", 100,
                 q.providedId, TruthyStr(q.providedId))
        ELSE Miss

\* 3. Normalized name match
NormalizedNameTier(m, q) ==
    LET normalizedName == normalizeName(q.name)
    IN  IF MapHas(m.catalogByNormalizedName, normalizedName)
        THEN Hit(m, MapGet(m.catalogByNormalizedName, normalizedName), "normalized", 95,
                 q.providedId, TruthyStr(q.providedId))
        ELSE Miss

\* bestDistance = Infinity
Infinity == 1000000

\* the loop of the fuzzy tier taking a later entry at an equal distance
RECURSIVE BestFuzzyMatchLastOnTies(_, _, _, _)
BestFuzzyMatchLastOnTies(m, normalizedName, i, best) ==
    IF i > Len(m.catalog) THEN best
    ELSE LET distance ==
                 levenshteinDistance(normalizedName, normalizeName(m.catalog[i].name))
         IN  BestFuzzyMatchLastOnTies(m, normalizedName, i + 1,
               IF distance <= best.bestDistance
               THEN [bestFuzzyMatch |-> i, bestDistance |-> distance]
               ELSE best)

\* for (const ex of this.catalog) { if (distance < bestDistance) ... }, from
\* position i on; bestFuzzyMatch 0 is null
RECURSIVE BestFuzzyMatch(_, _, _, _)
BestFuzzyMatch(m, normalizedName, i, best) ==
    IF i > Len(m.catalog) THEN best
    ELSE LET distance ==
                 levenshteinDistance(normalizedName, normalizeName(m.catalog[i].name))
         IN  BestFuzzyMatch(m, normalizedName, i + 1,
               IF distance < best.bestDistance
               THEN [bestFuzzyMatch |-> i, bestDistance |-> distance]
               ELSE best)

\* Math.max(FUZZY_MATCH_MIN_CONFIDENCE, 1 - bestDistance * CONFIDENCE_REDUCTION_PER_DISTANCE)
FuzzyConfidence(bestDistance) ==
    LET c == 100 - bestDistance * CONFIDENCE_REDUCTION_PER_DISTANCE
    IN  IF c > FUZZY_MATCH_MIN_CONFIDENCE THEN c ELSE FUZZY_MATCH_MIN_CONFIDENCE

\* 4. Fuzzy match by Levenshtein distance
FuzzyTier(m, q) ==
    LET best == BestFuzzyMatch(m, normalizeName(q.name), 1,
                               [bestFuzzyMatch |-> 0, bestDistance |-> Infinity])
    IN  IF best.bestFuzzyMatch # 0 /\ best.bestDistance <= FUZZY_MATCH_MAX_DISTANCE
        THEN Hit(m, best.bestFuzzyMatch, "fuzzy", FuzzyConfidence(best.bestDistance),
                 q.providedId, TruthyStr(q.providedId))
        ELSE Miss

\* 5. Partial match (one contains the other)
PartialTier(m, q) ==
    LET normalizedName == normalizeName(q.name)
        hits == { i \in 1..Len(m.catalog) :
                    LET exNorm == normalizeName(m.catalog[i].name)
                    IN  Includes(normalizedName, exNorm) \/ Includes(exNorm, normalizedName) }
    IN  IF hits # {}
        THEN Hit(m, CHOOSE i \in hits : \A j \in hits : i <= j, "partial", 70,
                 q.providedId, TruthyStr(q.providedId))
        ELSE Miss

\* the muscle filter comparing whole muscle names
MuscleMatchExact(ex, targetMuscles) ==
    \/ Len(targetMuscles) = 0
    \/ \E mi \in 1..Len(targetMuscles) : \E ti \in 1..Len(ex.targetMuscles) :
          ex.targetMuscles[ti] = targetMuscles[mi]

\* !targetMuscles?.length || targetMuscles.some((m) => ex.targetMuscles?.some((tm) =>
\*   tm.toLowerCase().includes(m.toLowerCase())));  an absent list is the empty list
MuscleMatch(ex, targetMuscles) ==
    \/ Len(targetMuscles) = 0
    \/ \E mi \in 1..Len(targetMuscles) : \E ti \in 1..Len(ex.targetMuscles) :
          Includes(toLowerCase(ex.targetMuscles[ti]), toLowerCase(targetMuscles[mi]))

\* this.catalog.filter(...), as the positions that pass
Candidates(m, q) ==
    { i \in 1..Len(m.catalog) :
        /\ ~TruthyStr(q.category) \/ m.catalog[i].category = q.category
        /\ MuscleMatch(m.catalog[i], q.targetMuscles) }

\* the fallback entered only on a category hint
CategoryTierCategoryOnly(m, q) ==
    IF TruthyStr(q.category) /\ Candidates(m, q) # {}
    THEN Hit(m, CHOOSE i \in Candidates(m, q) : \A j \in Candidates(m, q) : i <= j,
             "category_fallback", 30, q.providedId, TRUE)
    ELSE Miss

\* 6. Category + muscle fallback
CategoryTier(m, q) ==
    IF (TruthyStr(q.category) \/ Len(q.targetMuscles) # 0) /\ Candidates(m, q) # {}
    THEN Hit(m, CHOOSE i \in Candidates(m, q) : \A j \in Candidates(m, q) : i <= j,
             "category_fallback", 30, q.providedId, TRUE)
    ELSE Miss

\* the last resort reading catalog[0] without looking at the length
LastResortTierUnguarded(m, q) ==
    IF Len(m.catalog) > 0
    THEN Hit(m, 1, "category_fallback", 10, q.providedId, TRUE)
    ELSE [outcome |-> "returned", exerciseId |-> UndefStr, exerciseName |-> <<>>,
          matchType |-> "category_fallback", confidence |-> 10,
          originalId |-> q.providedId, wasCorrection |-> TRUE]

\* 7. Last resort: return first exercise in catalog
LastResortTier(m, q) ==
    IF Len(m.catalog) > 0
    THEN Hit(m, 1, "category_fallback", 10, q.providedId, TRUE)
    ELSE Miss

\* throw new Error('ExerciseMatcher: Empty catalog, cannot match exercises')
Threw == [outcome |-> "threw", message |-> "ExerciseMatcher: Empty catalog, cannot match exercises"]

\* the pipeline trying the substring tier before the fuzzy tier
matchPartialBeforeFuzzy(m, q) ==
    LET t1 == ValidIdTier(m, q)
        t2 == ExactNameTier(m, q)
        t3 == NormalizedNameTier(m, q)
        t4 == PartialTier(m, q)
        t5 == FuzzyTier(m, q)
        t6 == CategoryTier(m, q)
        t7 == LastResortTier(m, q)
    IN  IF t1 # Miss THEN t1 ELSE IF t2 # Miss THEN t2 ELSE IF t3 # Miss THEN t3
        ELSE IF t4 # Miss THEN t4 ELSE IF t5 # Miss THEN t5 ELSE IF t6 # Miss THEN t6
        ELSE IF t7 # Miss THEN t7 ELSE Threw

\* match(name, providedId, category, targetMuscles) on the matcher m: each tier
\* returns, or falls through to the next
match(m, q) ==
    LET t1 == ValidIdTier(m, q)
        t2 == ExactNameTier(m, q)
        t3 == NormalizedNameTier(m, q)
        t4 == FuzzyTier(m, q)
        t5 == PartialTier(m, q)
        t6 == CategoryTier(m, q)
        t7 == LastResortTier(m, q)
    IN  IF t1 # Miss THEN t1 ELSE IF t2 # Miss THEN t2 ELSE IF t3 # Miss THEN t3
        ELSE IF t4 # Miss THEN t4 ELSE IF t5 # Miss THEN t5 ELSE IF t6 # Miss THEN t6
        ELSE IF t7 # Miss THEN t7 ELSE Threw

isValidId(m, exerciseId) == MapHas(m.catalogById, exerciseId)

\* this.logger?.warn('ExerciseMatcher: Using last resort fallback', ...)
MatchLogs(r) ==
    IF r.outcome = "returned" /\ r.confidence = 10
    THEN <<[level |-> "warn", message |-> "ExerciseMatcher: Using last resort fallback"]>>
    ELSE <<>>

\* the matcher object
This ==
    [catalog |-> catalog, catalogByName |-> catalogByName,
     catalogByNormalizedName |-> catalogByNormalizedName, catalogById |-> catalogById]

\* the names of the catalogs and of the queries, character by character
Names ==
    [
     squat |-> <<"S", "q", "u", "a", "t">>,
     squatLower |-> <<"s", "q", "u", "a", "t">>,
     benchBar |-> <<"B", "e", "n", "c", "h", " ", "P", "r", "e", "s", "s", " ", "(", "B", "a", "r", ")">>,
     benchDb |-> <<"B", "e", "n", "c", "h", " ", "P", "r", "e", "s", "s", " ", "(", "D", "B", ")">>,
     pullUp |-> <<"P", "u", "l", "l", "-", "U", "p">>,
     squats |-> <<"S", "q", "u", "a", "t", "s">>,
     squad |-> <<"S", "q", "u", "a", "d">>,
     shout |-> <<"S", "Q", "U", "A", "T", "!">>,
     typo |-> <<"S", "q", "a", "t">>,
     empty |-> <<>>,
     benchPlain |-> <<"b", "e", "n", "c", "h", " ", " ", "p", "r", "e", "s", "s">>,
     benchTypo |-> <<"B", "e", "n", "c", "h", " ", "P", "r", "e", "s">>,
     incline |-> <<"I", "n", "c", "l", "i", "n", "e", " ", "B", "e", "n", "c", "h", " ", "P", "r", "e", "s", "s">>,
     deadlift |-> <<"R", "o", "m", "a", "n", "i", "a", "n", " ", "D", "e", "a", "d", "l", "i", "f", "t">> ]

Muscles ==
    [
     quads |-> <<"Q", "u", "a", "d", "s">>,
     chest |-> <<"C", "h", "e", "s", "t">>,
     quadHint |-> <<"q", "u", "a", "d">> ]

\* the longest list of set groups given to processSetGroups
MaxGroups == 2

\* a CatalogExercise; an absent targetMuscles is the empty list
Ex(id, name, category, targetMuscles) ==
    [id |-> id, name |-> name, category |-> category, targetMuscles |-> targetMuscles]

Entries ==
    [squat |-> Ex("sq", Names.squat, "legs", <<Muscles.quads>>),
     squatLower |-> Ex("sq2", Names.squatLower, "legs", <<Muscles.quads>>),
     squatTwin |-> Ex("sq3", Names.squat, "legs", <<Muscles.quads>>),
     benchBar |-> Ex("bp", Names.benchBar, "push", <<Muscles.chest>>),
     benchDb |-> Ex("bd", Names.benchDb, "push", <<Muscles.chest>>),
     pullUp |-> Ex("pu", Names.pullUp, UndefStr, <<>>),
     squats |-> Ex("s1", Names.squats, "legs", <<>>),
     squad |-> Ex("s2", Names.squad, "legs", <<>>)]

\* the catalogs: empty, one entry, several entries of which two share a
\* normalized name, three entries sharing a lower-cased name, two entries at the
\* same distance of a query in both orders, only a long name
Catalogs ==
    { <<>>,
      <<Entries.squat>>,
      <<Entries.benchBar, Entries.squat, Entries.pullUp, Entries.benchDb>>,
      <<Entries.squat, Entries.squatLower, Entries.squatTwin>>,
      <<Entries.squats, Entries.squad>>,
      <<Entries.squad, Entries.squats>>,
      <<Entries.benchBar>> }

QueryNames == { Names[k] : k \in DOMAIN Names }

\* providedId?: absent, empty, not in any catalog, of an entry
QueryIds == {UndefStr, "", "bogus"} \cup { Entries[k].id : k \in DOMAIN Entries }

\* category? and targetMuscles?: absent, empty, of an entry or of none
QueryHints ==
    { [category |-> UndefStr, targetMuscles |-> <<>>],
      [category |-> "", targetMuscles |-> <<>>],
      [category |-> "legs", targetMuscles |-> <<>>],
      [category |-> "arms", targetMuscles |-> <<>>],
      [category |-> UndefStr, targetMuscles |-> <<Muscles.quadHint>>],
      [category |-> UndefStr, targetMuscles |-> <<Muscles.chest, Muscles.quadHint>>],
      [category |-> "legs", targetMuscles |-> <<Muscles.chest>>],
      [category |-> "push", targetMuscles |-> <<Muscles.chest>>] }

\* the hints that are absent
NoHints == [category |-> UndefStr, targetMuscles |-> <<>>]

Query(n, id, h) ==
    [name |-> n, providedId |-> id, category |-> h.category,
     targetMuscles |-> h.targetMuscles]

\* the calls of match: every name with every id and no hints, and every name
\* with every hint and no id, an unknown id or a known id
Queries ==
    { Query(n, id, NoHints) : n \in QueryNames, id \in QueryIds }
    \cup { Query(n, id, h) : n \in QueryNames, id \in {UndefStr, "bogus", "sq"},
                             h \in QueryHints }

\* a set group without a name
UndefName == <<UndefStr>>

\* the set groups given to processSetGroups
SetGroup(id, name) ==
    [exerciseId |-> id, exerciseName |-> name, order |-> 1,
     sets |-> <<[setNumber |-> 1, reps |-> 8, weight |-> 60]>>, notes |-> "pause"]

SetGroupInputs ==
    { SetGroup("sq", Names.squat), SetGroup("sq", Names.deadlift),
      SetGroup("bogus", Names.squat), SetGroup("bogus", Names.typo),
      SetGroup("bogus", UndefName), SetGroup("", Names.squat),
      SetGroup("", Names.deadlift) }

InitMatcher ==
    \E cat \in Catalogs :
        /\ heap = EmptyHeap
        /\ rawInput = <<>>
        /\ given = [catalog |-> cat]
        /\ pc = "matcher"
        /\ durationWeeks = Undef
        /\ weeks = <<>>
        /\ weekNum = 0
        /\ clonedWeek = 0
        /\ changeIdx = 0
        /\ program = NoProgram
        /\ AuditIdle
        /\ MatcherIdle
        /\ HydrateIdle
        /\ TrackingIdle

MatcherFrame == UNCHANGED <<patcherVars, auditVars, hydrateVars, trackingVars>>

\* new ExerciseMatcher(catalog)
Construct ==
    /\ pc = "matcher"
    /\ mpc = "none"
    /\ LET maps == BuildMaps(given.catalog, 1,
                             [byName |-> <<>>, byNormalizedName |-> <<>>, byId |-> <<>>])
       IN  /\ catalog' = given.catalog
           /\ catalogByName' = maps.byName
           /\ catalogByNormalizedName' = maps.byNormalizedName
           /\ catalogById' = maps.byId
    /\ logged' = <<[level |-> "info", message |-> "ExerciseMatcher initialized"]>>
    /\ mpc' = "ready"
    /\ UNCHANGED <<args, result, correctedSetGroups, validCount, correctedCount>>
    /\ MatcherFrame

\* a call of match
MatchCall ==
    /\ mpc = "ready"
    /\ \E q \in Queries :
          /\ args' = q
          /\ result' = match(This, q)
          /\ logged' = MatchLogs(match(This, q))
    /\ mpc' = "returned"
    /\ UNCHANGED <<catalog, catalogByName, catalogByNormalizedName, catalogById,
                   correctedSetGroups, validCount, correctedCount>>
    /\ MatcherFrame

\* a call of processSetGroups: the locals before the loop
ProcessStart ==
    /\ mpc = "ready"
    /\ \E gs \in SeqsUpTo(SetGroupInputs, MaxGroups) : args' = [setGroups |-> gs]
    /\ correctedSetGroups' = <<>>
    /\ validCount' = 0
    /\ correctedCount' = 0
    /\ logged' = <<>>
    /\ mpc' = "processing"
    /\ UNCHANGED <<catalog, catalogByName, catalogByNormalizedName, catalogById, result>>
    /\ MatcherFrame

\* the set group the loop of processSetGroups is at
CurrentSetGroup == args.setGroups[Len(correctedSetGroups) + 1]

\* this.match(setGroup.exerciseName || '', setGroup.exerciseId, undefined, undefined)
GroupMatch(m, setGroup) ==
    match(m, [name |-> IF setGroup.exerciseName = UndefName THEN <<>>
                       ELSE setGroup.exerciseName,
              providedId |-> setGroup.exerciseId,
              category |-> UndefStr,
              targetMuscles |-> <<>>])

\* the round assigning the matched id and name to the set group it was given
SuppliedGroupsRewritten(setGroups, i, r) ==
    [setGroups EXCEPT ![i].exerciseId = r.exerciseId, ![i].exerciseName = r.exerciseName]

\* the array processSetGroups was given, after the round for its i-th group:
\* the loop reads setGroup and assigns to none of its fields
SuppliedGroups(setGroups, i, r) == setGroups

\* one round of the loop that returns a match result
ProcessGroup ==
    /\ mpc = "processing"
    /\ Len(correctedSetGroups) < Len(args.setGroups)
    /\ LET r == GroupMatch(This, CurrentSetGroup)
       IN  /\ r.outcome = "returned"
           /\ validCount' = IF r.wasCorrection THEN validCount ELSE validCount + 1
           /\ correctedCount' = IF r.wasCorrection THEN correctedCount + 1
                                ELSE correctedCount
           /\ logged' = logged \o MatchLogs(r)
                        \o (IF r.wasCorrection
                            THEN <<[level |-> "info", message |-> "Exercise ID corrected"]>>
                            ELSE <<>>)
           /\ correctedSetGroups' =
                 Append(correctedSetGroups,
                        [CurrentSetGroup EXCEPT !.exerciseId = r.exerciseId,
                                                !.exerciseName = r.exerciseName])
           /\ args' = [args EXCEPT
                         !.setGroups = SuppliedGroups(@, Len(correctedSetGroups) + 1, r)]
    /\ UNCHANGED <<catalog, catalogByName, catalogByNormalizedName, catalogById, mpc,
                   result>>
    /\ MatcherFrame

\* one round of the loop in which match throws
ProcessThrow ==
    /\ mpc = "processing"
    /\ Len(correctedSetGroups) < Len(args.setGroups)
    /\ GroupMatch(This, CurrentSetGroup).outcome = "threw"
    /\ result' = GroupMatch(This, CurrentSetGroup)
    /\ mpc' = "returned"
    /\ UNCHANGED <<catalog, catalogByName, catalogByNormalizedName, catalogById, args,
                   correctedSetGroups, validCount, correctedCount, logged>>
    /\ MatcherFrame

\* return { correctedSetGroups, stats: { total, valid, corrected, failed: 0 } }
ProcessReturn ==
    /\ mpc = "processing"
    /\ Len(correctedSetGroups) = Len(args.setGroups)
    /\ result' = [outcome |-> "processed",
                  correctedSetGroups |-> correctedSetGroups,
                  stats |-> [total |-> Len(args.setGroups), valid |-> validCount,
                             corrected |-> correctedCount, failed |-> 0]]
    /\ mpc' = "returned"
    /\ UNCHANGED <<catalog, catalogByName, catalogByNormalizedName, catalogById, args,
                   correctedSetGroups, validCount, correctedCount, logged>>
    /\ MatcherFrame

NextMatcher ==
    \/ Construct
    \/ MatchCall
    \/ ProcessStart
    \/ ProcessGroup
    \/ ProcessThrow
    \/ ProcessReturn

SpecMatcher == InitMatcher /\ [][NextMatcher]_vars

(* ------------------------- properties of the matcher -------------------- *)

\* a call of match has ended
MatchEnded == mpc = "returned" /\ "name" \in DOMAIN args

\* a call of match has returned a result
MatchReturned == MatchEnded /\ result.outcome = "returned"

\* the ids of the catalog
CatalogIds == { catalog[i].id : i \in 1..Len(catalog) }

\* C12: whenever providedId is supplied and isValidId(providedId) is true, match
\* returns exerciseId = providedId with matchType exact, confidence 1.0 and
\* wasCorrection false, whatever the name and the hints are; in particular
\* match(e.name, e.id) returns e.id for every catalog entry e.
C12_ValidIdShortCircuit ==
    MatchEnded =>
        /\ args.providedId # UndefStr /\ isValidId(This, args.providedId) =>
              /\ result.outcome = "returned"
              /\ result.exerciseId = args.providedId
              /\ result.matchType = "exact"
              /\ result.confidence = 100
              /\ result.wasCorrection = FALSE
        /\ \A i \in 1..Len(catalog) :
              args.name = catalog[i].name /\ args.providedId = catalog[i].id =>
                  /\ result.outcome = "returned"
                  /\ result.exerciseId = catalog[i].id

\* match was called with the id of the squat, the name of another exercise and
\* hints that fit no entry, and returned the squat as an exact match
C12_Witness ==
    /\ MatchReturned
    /\ Len(catalog) = 4
    /\ args.providedId = "sq"
    /\ args.name = Names.deadlift
    /\ args.category = "arms"
    /\ result.exerciseId = "sq"
    /\ result.exerciseName = Names.squat
    /\ result.matchType = "exact"
    /\ ~result.wasCorrection

\* the id given to match is not empty and not an id of the catalog
BogusIdGiven == TruthyStr(args.providedId) /\ args.providedId \notin CatalogIds

LastOfItsName(i) ==
    \A j \in (i + 1)..Len(catalog) :
        toLowerCase(catalog[j].name) # toLowerCase(catalog[i].name)

IdKnown == TruthyStr(args.providedId) /\ args.providedId \in CatalogIds

NameKnown ==
    \E i \in 1..Len(catalog) : toLowerCase(catalog[i].name) = toLowerCase(args.name)

NormalizedKnown ==
    \E i \in 1..Len(catalog) : normalizeName(catalog[i].name) = normalizeName(args.name)

\* the edit distance of the query to entry i
DistanceTo(i) ==
    levenshteinDistance(normalizeName(args.name), normalizeName(catalog[i].name))

\* the least edit distance of the query to an entry of a catalog that is not empty
MinDistance ==
    LET ds == { DistanceTo(i) : i \in 1..Len(catalog) }
    IN  CHOOSE d \in ds : \A e \in ds : d <= e

Near == catalog # <<>> /\ MinDistance <= 5

Contained ==
    \E i \in 1..Len(catalog) :
        \/ Includes(normalizeName(args.name), normalizeName(catalog[i].name))
        \/ Includes(normalizeName(catalog[i].name), normalizeName(args.name))

\* a category or a muscle is given
HintGiven == TruthyStr(args.category) \/ args.targetMuscles # <<>>

\* entry i has the category given, if one is given, and, if muscles are given, a
\* muscle that contains one of them, whatever the case of the letters
FitsHints(i) ==
    /\ TruthyStr(args.category) => catalog[i].category = args.category
    /\ args.targetMuscles # <<>> =>
          \E mi \in 1..Len(args.targetMuscles) : \E ti \in 1..Len(catalog[i].targetMuscles) :
              Includes(toLowerCase(catalog[i].targetMuscles[ti]),
                       toLowerCase(args.targetMuscles[mi]))

Hinted == HintGiven /\ \E i \in 1..Len(catalog) : FitsHints(i)

\* the first tier whose condition holds; 8 is the error of the empty catalog
TierOf ==
    IF IdKnown THEN 1 ELSE IF NameKnown THEN 2 ELSE IF NormalizedKnown THEN 3
    ELSE IF Near THEN 4 ELSE IF Contained THEN 5 ELSE IF Hinted THEN 6
    ELSE IF catalog # <<>> THEN 7 ELSE 8

\* the matchType and the confidence, in hundredths, of each tier
TierPair(t) ==
    CASE t = 1 -> <<"exact", 100>>
      [] t = 2 -> <<"exact", 100>>
      [] t = 3 -> <<"normalized", 95>>
      [] t = 4 -> <<"fuzzy", IF 100 - 10 * MinDistance > 50
                             THEN 100 - 10 * MinDistance ELSE 50>>
      [] t = 5 -> <<"partial", 70>>
      [] t = 6 -> <<"category_fallback", 30>>
      [] t = 7 -> <<"category_fallback", 10>>

\* C14: match tries valid id, exact name, normalized name, fuzzy distance,
\* substring, category/muscle fallback and last resort in this order and returns
\* the result of the first tier whose condition holds, never that of a later
\* tier, with that tier's matchType and confidence.
C14_FirstTierWins ==
    MatchEnded =>
        IF TierOf = 8 THEN result.outcome = "threw"
        ELSE /\ result.outcome = "returned"
             /\ <<result.matchType, result.confidence>> = TierPair(TierOf)
             /\ TierOf = 1 => result.exerciseId = args.providedId /\ ~result.wasCorrection

\* match was called with a name that is one letter from an entry's, is contained
\* in it and comes with a category that entries have: the fuzzy tier answered
C14_Witness ==
    /\ MatchReturned
    /\ args.name = Names.benchTypo
    /\ args.category = "push"
    /\ ~IdKnown /\ ~NameKnown /\ ~NormalizedKnown
    /\ Near /\ Contained /\ Hinted
    /\ result.matchType = "fuzzy"
    /\ result.confidence = 90

\* the first entry of the catalog at the least distance of the query
FirstNearest ==
    CHOOSE i \in 1..Len(catalog) :
        /\ DistanceTo(i) = MinDistance
        /\ \A j \in 1..(i - 1) : DistanceTo(j) # MinDistance

\* C15: when no earlier tier matched, match takes the entry at the least
\* Levenshtein distance d of the normalized query, the first in catalog order on
\* ties, and returns it as fuzzy if and only if d <= 5, with confidence
\* max(0.5, 1 - 0.1 d); beyond 5 there is no fuzzy result.
C15_FuzzyTier ==
    MatchEnded /\ catalog # <<>> /\ ~IdKnown /\ ~NameKnown /\ ~NormalizedKnown =>
        /\ result.outcome = "returned"
        /\ result.matchType = "fuzzy" <=> MinDistance <= 5
        /\ MinDistance <= 5 =>
              /\ result.exerciseId = catalog[FirstNearest].id
              /\ result.exerciseName = catalog[FirstNearest].name
              /\ result.confidence = 100 - 10 * MinDistance
              /\ result.confidence >= 50

\* "Squat" was matched against the catalog <<"Squats", "Squad">>, both one edit
\* away: the first was returned as fuzzy
C15_Witness ==
    /\ MatchReturned
    /\ catalog = <<Entries.squats, Entries.squad>>
    /\ args.name = Names.squat
    /\ args.providedId = UndefStr
    /\ DistanceTo(1) = 1 /\ DistanceTo(2) = 1
    /\ result.matchType = "fuzzy"
    /\ result.exerciseId = "s1"
    /\ result.confidence = 90

\* C16: a matcher is constructed from an empty catalog without an error, and
\* every match call on it, whatever its name, id and hints, fails with the
\* empty-catalog error instead of returning a result; isValidId is false for
\* every id.
C16_EmptyCatalogFails ==
    given.catalog = <<>> =>
        /\ mpc \in {"none", "ready", "processing", "returned"}
        /\ mpc # "none" => \A id \in QueryIds : ~isValidId(This, id)
        /\ MatchEnded => result = Threw
        /\ mpc = "processing" => correctedSetGroups = <<>>
        /\ mpc = "returned" /\ "setGroups" \in DOMAIN args /\ args.setGroups # <<>> =>
              result = Threw

\* a matcher was constructed from the empty catalog and a match call with an id,
\* a name and a category has thrown
C16_Witness ==
    /\ given.catalog = <<>>
    /\ catalog = <<>>
    /\ MatchEnded
    /\ args.providedId = "sq"
    /\ args.name = Names.squat
    /\ args.category = "legs"
    /\ result.outcome = "threw"

\* C17: on a non-empty catalog every match call, whatever its name (also the
\* empty name), id and hints, returns a result whose exerciseId is the id of a
\* catalog entry, isValidId holding of it, with a confidence between 0 and 1;
\* hence every set group processSetGroups returns has the id of a catalog entry.
C17_ResultIsCatalogEntry ==
    catalog # <<>> =>
        /\ MatchEnded =>
              /\ result.outcome = "returned"
              /\ result.exerciseId \in CatalogIds
              /\ isValidId(This, result.exerciseId)
              /\ result.confidence >= 0 /\ result.confidence <= 100
        /\ \A i \in 1..Len(correctedSetGroups) :
              /\ correctedSetGroups[i].exerciseId \in CatalogIds
              /\ isValidId(This, correctedSetGroups[i].exerciseId)
        /\ mpc = "returned" /\ "setGroups" \in DOMAIN args =>
              /\ result.outcome = "processed"
              /\ \A i \in 1..Len(result.correctedSetGroups) :
                    result.correctedSetGroups[i].exerciseId \in CatalogIds

\* processSetGroups has returned two set groups, given with an unknown id and no
\* name and with an empty id and a name no entry resembles: both carry catalog ids
C17_Witness ==
    /\ mpc = "returned"
    /\ "setGroups" \in DOMAIN args
    /\ Len(catalog) = 4
    /\ args.setGroups = <<SetGroup("bogus", UndefName), SetGroup("", Names.deadlift)>>
    /\ result.outcome = "processed"
    /\ Len(result.correctedSetGroups) = 2
    /\ \A i \in 1..2 : result.correctedSetGroups[i].exerciseId \in CatalogIds

\* the last resort answered the call that ended
LastResortReturned == MatchReturned /\ result.confidence = 10

\* no tier before the category fallback matched
EarlierTiersMissed == ~IdKnown /\ ~NameKnown /\ ~NormalizedKnown /\ ~Near /\ ~Contained

\* C18 as stated: the last-resort result is returned only when the catalog is not
\* empty, no earlier tier matched and neither a category nor a targetMuscles
\* hint was given; never for a call that supplied a category or muscles.
C18_LastResortOnlyWithoutHints ==
    LastResortReturned =>
        /\ catalog # <<>>
        /\ EarlierTiersMissed
        /\ ~HintGiven

\* C18 amended: the last-resort result (the catalog's first entry, confidence
\* 0.1, wasCorrection true, a warning logged) is returned only when the catalog
\* is not empty, no earlier tier matched, and either no category and no
\* targetMuscles hint was given or no catalog entry fits the hints given; it is
\* never returned for a call whose hints fit a catalog entry.
C18_LastResortOnlyWithoutFit ==
    /\ LastResortReturned =>
          /\ catalog # <<>>
          /\ EarlierTiersMissed
          /\ ~Hinted
          /\ result.exerciseId = catalog[1].id
          /\ result.exerciseName = catalog[1].name
          /\ result.matchType = "category_fallback"
          /\ result.wasCorrection
          /\ \E k \in 1..Len(logged) : logged[k].level = "warn"
    /\ MatchReturned /\ Hinted => result.confidence # 10

\* match was called with a name no entry resembles and the category "arms", which
\* no entry has: the first entry came back as the last resort
C18_Witness ==
    /\ LastResortReturned
    /\ Len(catalog) = 4
    /\ args.name = Names.deadlift
    /\ args.category = "arms"
    /\ HintGiven /\ ~Hinted
    /\ result.exerciseId = "bp"
    /\ logged # <<>>

\* entry i has the category given, if one is given, and, if muscles are given, a
\* muscle in common with them
SharesHints(i) ==
    /\ TruthyStr(args.category) => catalog[i].category = args.category
    /\ args.targetMuscles # <<>> =>
          \E mi \in 1..Len(args.targetMuscles) : \E ti \in 1..Len(catalog[i].targetMuscles) :
              catalog[i].targetMuscles[ti] = args.targetMuscles[mi]

\* the category fallback answered the call that ended
FallbackReturned == MatchReturned /\ result.confidence = 30

\* C19 as stated: when no earlier tier matched and a category or muscles are
\* supplied, match returns the first entry, in catalog order, whose category
\* equals the one supplied and whose targetMuscles has an element in common with
\* the muscles supplied, as category_fallback, confidence 0.3, wasCorrection true.
C19_FallbackFirstSharing ==
    MatchEnded /\ catalog # <<>> /\ EarlierTiersMissed /\ HintGiven =>
        /\ (\E i \in 1..Len(catalog) : SharesHints(i)) =>
              /\ FallbackReturned
              /\ \E i \in 1..Len(catalog) :
                    /\ SharesHints(i) /\ \A j \in 1..(i - 1) : ~SharesHints(j)
                    /\ result.exerciseId = catalog[i].id
        /\ FallbackReturned =>
              \E i \in 1..Len(catalog) : SharesHints(i) /\ result.exerciseId = catalog[i].id

\* C19 amended: when no earlier tier matched, a non-empty category or a non-empty
\* targetMuscles list is supplied, and some entry has the category supplied (if
\* given) and (if muscles are given) a target muscle that contains one of the
\* supplied muscles as a substring, letter case ignored, match returns the first
\* such entry in catalog order as category_fallback, confidence 0.3,
\* wasCorrection true; if no entry is such, the last resort answers.
C19_FallbackFirstFitting ==
    MatchEnded /\ catalog # <<>> /\ EarlierTiersMissed /\ HintGiven =>
        /\ result.outcome = "returned"
        /\ result.matchType = "category_fallback"
        /\ result.wasCorrection
        /\ Hinted =>
              /\ result.confidence = 30
              /\ \E i \in 1..Len(catalog) :
                    /\ FitsHints(i) /\ \A j \in 1..(i - 1) : ~FitsHints(j)
                    /\ result.exerciseId = catalog[i].id
                    /\ result.exerciseName = catalog[i].name
        /\ ~Hinted => result.confidence = 10 /\ result.exerciseId = catalog[1].id

\* match was called with a name no entry resembles and the muscle "quad": the
\* squat, second in the catalog and the first with a muscle containing it,
\* "Quads", came back as the category fallback
C19_Witness ==
    /\ FallbackReturned
    /\ Len(catalog) = 4
    /\ args.name = Names.deadlift
    /\ args.category = UndefStr
    /\ args.targetMuscles = <<Muscles.quadHint>>
    /\ ~FitsHints(1) /\ FitsHints(2) /\ ~SharesHints(2)
    /\ result.exerciseId = "sq"
    /\ result.wasCorrection

\* a call of processSetGroups has returned
ProcessReturned ==
    mpc = "returned" /\ "setGroups" \in DOMAIN args /\ result.outcome = "processed"

\* the set groups given whose exerciseId is an id of the catalog
GivenValid == { i \in 1..Len(args.setGroups) : args.setGroups[i].exerciseId \in CatalogIds }

\* C20: for every list of set groups and non-empty catalog, processSetGroups
\* returns total = the number of groups given, valid + corrected = total and
\* failed = 0; a group counts as valid, and keeps its exerciseId, exactly when
\* the id it was given with is a catalog id, and as corrected otherwise;
\* correctedSetGroups has the length and the order of the input.
C20_StatsCountValidIds ==
    ProcessReturned /\ catalog # <<>> =>
        /\ result.stats.total = Len(args.setGroups)
        /\ result.stats.valid + result.stats.corrected = result.stats.total
        /\ result.stats.failed = 0
        /\ Len(result.correctedSetGroups) = Len(args.setGroups)
        /\ \A i \in 1..Len(args.setGroups) :
              /\ result.correctedSetGroups[i].order = args.setGroups[i].order
              /\ i \in GivenValid =>
                    result.correctedSetGroups[i].exerciseId = args.setGroups[i].exerciseId
        /\ result.stats.valid = Cardinality(GivenValid)
        /\ result.stats.corrected = Len(args.setGroups) - Cardinality(GivenValid)


(* ------------------------- set-group-helpers --------------------------- *)
(* The set groups of the tracking side: {id, count, baseSet, progression?, *)
(* sets?}.  Weights are in tenths of a kilogram, so that 2.5 kg is 25.     *)

MaxCount == 3

MaxHydrated == 2

\* a weight or rpe that is null
Null == -2

\* the switch of applyProgressionToSet for one step that covers setNumber
ApplyStep(set, setNumber, type, step) ==
    LET progressInRange == setNumber - step.fromSet
    IN  CASE type = "linear" ->
                 IF set.weight # Null
                 THEN [set EXCEPT !.weight = @ + step.adjustment * progressInRange]
                 ELSE set
          [] type = "percentage" ->
                 IF set.weight # Null
                 THEN [set EXCEPT !.weight =
                          RoundDiv(@ * (100 + step.adjustment * progressInRange), 100)]
                 ELSE set
          [] type = "rpe" ->
                 IF set.rpe # Null
                 THEN [set EXCEPT !.rpe =
                          IF @ + step.adjustment * progressInRange < 10
                          THEN @ + step.adjustment * progressInRange ELSE 10]
                 ELSE set
          [] OTHER -> set

\* for (const step of progression.steps) ...
RECURSIVE applyProgressionToSet(_, _, _, _)
applyProgressionToSet(set, setNumber, type, steps) ==
    IF Len(steps) = 0 THEN set
    ELSE LET step == Head(steps)
             next == IF setNumber >= step.fromSet /\ setNumber <= step.toSet
                     THEN ApplyStep(set, setNumber, type, step) ELSE set
         IN  applyProgressionToSet(next, setNumber, type, Tail(steps))

\* no progression was given
NoProgression == [type |-> "none", steps |-> <<>>]

expandSetsFromGroup(baseSet, count, progression) ==
    [i \in 1..count |->
        IF progression # NoProgression
        THEN applyProgressionToSet(baseSet, i, progression.type, progression.steps)
        ELSE baseSet]

\* the callback of map expanding every group, whatever sets it arrives with
HydrateGroupAlways(group) ==
    [group EXCEPT !.hasSets = TRUE,
                  !.sets = expandSetsFromGroup(group.baseSet, group.count, group.progression)]

\* the callback of setGroups.map: { ...group, sets: ... }
HydrateGroup(group) ==
    [group EXCEPT !.hasSets = TRUE,
                  !.sets = IF group.hasSets /\ Len(group.sets) > 0
                           THEN group.sets
                           ELSE expandSetsFromGroup(group.baseSet, group.count,
                                                    group.progression)]

hydrateSetGroups(setGroups) == [i \in 1..Len(setGroups) |-> HydrateGroup(setGroups[i])]


\* the groups hydrateSetGroups is tried on: every count with every kind of
\* base set, progression and sets array (missing, empty, shorter than, as long
\* as and longer than count)
HydrateInputs ==
    LET TSet(reps, weight, rpe) == [reps |-> reps, weight |-> weight, rpe |-> rpe, rest |-> 90]
        Step(a, b, adj) == [fromSet |-> a, toSet |-> b, adjustment |-> adj]
        bases == {TSet(8, 600, 7), TSet(10, Null, Null)}
        progressions ==
            {NoProgression,
             [type |-> "linear", steps |-> <<Step(1, MaxCount, 25)>>],
             [type |-> "percentage", steps |-> <<Step(2, MaxCount, 5)>>],
             [type |-> "rpe", steps |-> <<Step(1, 2, 1), Step(2, MaxCount + 1, 2)>>]}
        stored == {<<>>, <<TSet(5, 1000, 8)>>, <<TSet(5, 1000, 8), TSet(3, 1100, 9)>>}
        Group(c, b, p, has, ss) ==
            [id |-> "g", count |-> c, baseSet |-> b, progression |-> p,
             hasSets |-> has, sets |-> ss]
        groups == {Group(c, b, p, TRUE, ss) :
                      c \in 0..MaxCount, b \in bases, p \in progressions, ss \in stored}
                  \cup {Group(c, b, p, FALSE, <<>>) :
                      c \in 0..MaxCount, b \in bases, p \in progressions}
        few == {Group(2, TSet(8, 600, 7), NoProgression, FALSE, <<>>),
                Group(MaxCount, TSet(8, 600, 7),
                      [type |-> "linear", steps |-> <<Step(1, MaxCount, 25)>>], TRUE, <<>>),
                Group(1, TSet(10, Null, Null), NoProgression, TRUE,
                      <<TSet(5, 1000, 8), TSet(3, 1100, 9)>>)}
    IN  {<<g>> : g \in groups} \cup SeqsUpTo(few, MaxHydrated)


InitHydrate ==
    \E gs \in HydrateInputs :
        /\ heap = EmptyHeap
        /\ rawInput = <<>>
        /\ given = [setGroups |-> gs]
        /\ pc = "hydrate"
        /\ durationWeeks = Undef
        /\ weeks = <<>>
        /\ weekNum = 0
        /\ clonedWeek = 0
        /\ changeIdx = 0
        /\ program = NoProgram
        /\ AuditIdle
        /\ MatcherIdle
        /\ TrackingIdle
        /\ hpc = "called"
        /\ hydrateArg = gs
        /\ hydrated = <<>>

HydrateFrame == UNCHANGED <<patcherVars, auditVars, matcherVars, trackingVars>>

\* one call of the callback of setGroups.map
HydrateNext ==
    /\ hpc = "called"
    /\ Len(hydrated) < Len(hydrateArg)
    /\ hydrated' = Append(hydrated, HydrateGroup(hydrateArg[Len(hydrated) + 1]))
    /\ UNCHANGED <<hpc, hydrateArg>>
    /\ HydrateFrame

\* map returns the new array
HydrateReturn ==
    /\ hpc = "called"
    /\ Len(hydrated) = Len(hydrateArg)
    /\ hpc' = "returned"
    /\ UNCHANGED <<hydrateArg, hydrated>>
    /\ HydrateFrame

NextHydrate == HydrateNext \/ HydrateReturn

SpecHydrate == InitHydrate /\ [][NextHydrate]_vars

(* ------------------- properties of hydrateSetGroups -------------------- *)

HydrateReturned == pc = "hydrate" /\ hpc = "returned"

\* the set that expansion gives position k of a group without progression steps
\* covering k: the base set itself
Uncovered(g, k) ==
    \A i \in 1..Len(g.progression.steps) :
        k < g.progression.steps[i].fromSet \/ k > g.progression.steps[i].toSet

\* the group arrived with sets to keep
ArrivedWithSets(g) == g.hasSets /\ Len(g.sets) > 0

\* C21 as stated: after hydrateSetGroups every returned group has as many sets
\* as its count, whatever sets array it arrived with
C21_EveryGroupHasCountSets ==
    HydrateReturned =>
        \A i \in 1..Len(hydrated) : Len(hydrated[i].sets) = hydrated[i].count

\* C21: hydrateSetGroups returns one group per input group, in order and with
\* every field but sets as given; a group that arrived without sets or with an
\* empty sets array has exactly count sets, each the base set where no
\* progression step covers it; a group that arrived with a non-empty sets array
\* keeps that array, whatever its count; the argument is left as it was
C21_HydratedGroups ==
    HydrateReturned =>
        /\ Len(hydrated) = Len(given.setGroups)
        /\ hydrateArg = given.setGroups
        /\ \A i \in 1..Len(hydrated) :
              LET g == given.setGroups[i]
                  out == hydrated[i]
              IN  /\ [out EXCEPT !.sets = <<>>, !.hasSets = TRUE]
                       = [g EXCEPT !.sets = <<>>, !.hasSets = TRUE]
                  /\ ArrivedWithSets(g) => out.sets = g.sets
                  /\ ~ArrivedWithSets(g) =>
                        /\ Len(out.sets) = g.count
                        /\ \A k \in 1..Len(out.sets) :
                              /\ Uncovered(g, k) => out.sets[k] = g.baseSet
                              /\ out.sets[k].reps = g.baseSet.reps

\* a returned array holding a group expanded to its count (with a progression
\* changing its later sets) and a group that kept two sets against a count of 1
C21_Witness ==
    /\ HydrateReturned
    /\ \E i, j \in 1..Len(hydrated) :
          /\ ~ArrivedWithSets(given.setGroups[i])
          /\ Len(hydrated[i].sets) = MaxCount
          /\ hydrated[i].sets[MaxCount] # hydrated[i].baseSet
          /\ ArrivedWithSets(given.setGroups[j])
          /\ Len(hydrated[j].sets) = 2
          /\ hydrated[j].count = 1


(* ----------------------- workout-tracking.service ---------------------- *)
(* Every await of the service is a step of its own, so that the calls of   *)
(* several callers interleave at the points where the event loop can       *)
(* switch between them.  The workout_sessions table is the rows in         *)
(* insertion order; the code's own queries (findFirst with an orderBy "if  *)
(* duplicates exist") treat it as a table without a uniqueness rule on     *)
(* (userId, programId, weekNumber, dayNumber).                             *)

\* the calls started over a run, all callers together
MaxCalls == 3

Callers == {1, 2}

Users == {"A", "B"}

\* workout_programs, which the service only reads: the owner of each program
\* and the (weekNumber, dayNumber) pairs of its weeks; every day has the same
\* exercises, one of them with a set group stored as baseSet and count only
workout_programs ==
    LET base == [reps |-> 8, weight |-> 600, rpe |-> 7, rest |-> 90]
        exercises ==
            <<[name |-> "Squat",
               setGroups |-> <<[id |-> "g", count |-> 2, baseSet |-> base,
                                progression |-> NoProgression,
                                hasSets |-> FALSE, sets |-> <<>>]>>],
              [name |-> "Plank", setGroups |-> <<>>]>>
    IN  [p1 |-> [userId |-> "A", days |-> {<<1, 1>>, <<1, 2>>}, exercises |-> exercises],
         p2 |-> [userId |-> "B", days |-> {<<1, 1>>}, exercises |-> exercises]]

\* the position in the table of the row with this id, 0 when there is none
findUnique(table, id) ==
    IF \E i \in 1..Len(table) : table[i].id = id
    THEN CHOOSE i \in 1..Len(table) : table[i].id = id
    ELSE 0

\* the positions of the rows that findFirst's where clause selects
SessionsForDay(table, a) ==
    {i \in 1..Len(table) : /\ table[i].userId = a.userId
                           /\ table[i].programId = a.programId
                           /\ table[i].weekNumber = a.weekNumber
                           /\ table[i].dayNumber = a.dayNumber}

mapToWorkoutSession(row) ==
    [id |-> row.id, userId |-> row.userId, programId |-> row.programId,
     weekNumber |-> row.weekNumber, dayNumber |-> row.dayNumber,
     completedAt |-> row.completedAt, exercises |-> row.exercises,
     notes |-> IF row.notes = "" THEN UndefStr ELSE row.notes,
     updatedAt |-> row.updatedAt]

NoSession == [id |-> 0]

Resolved(v) == [kind |-> "returned", value |-> v, error |-> ""]

Rejected(msg) == [kind |-> "threw", value |-> NoSession, error |-> msg]

\* getWorkoutSession without the ownership test
getWorkoutSessionUnverified(table, sessionId, userId) ==
    LET i == findUnique(table, sessionId)
    IN  IF i = 0 THEN [kind |-> "null", value |-> NoSession, error |-> ""]
        ELSE Resolved(mapToWorkoutSession(table[i]))

getWorkoutSession(table, sessionId, userId) ==
    LET i == findUnique(table, sessionId)
    IN  IF i = 0 THEN [kind |-> "null", value |-> NoSession, error |-> ""]
        ELSE IF table[i].userId # userId
             THEN Rejected("Non hai i permessi per accedere a questa sessione")
             ELSE Resolved(mapToWorkoutSession(table[i]))

\* the exercises stored with a new session: a JSON copy of day.exercises with
\* the set groups of every exercise hydrated
SessionExercises(exercises) ==
    [i \in 1..Len(exercises) |->
        [exercises[i] EXCEPT !.setGroups = IF Len(@) > 0 THEN hydrateSetGroups(@) ELSE <<>>]]


\* nobody is calling: the state of a caller before its first call
NoCall ==
    [op |-> "none", pc |-> "idle", n |-> 0,
     args |-> [userId |-> "", programId |-> "", weekNumber |-> 0, dayNumber |-> 0,
               sessionId |-> 0, completedAt |-> Undef, notes |-> UndefStr],
     outcome |-> [kind |-> "none", value |-> NoSession, error |-> ""]]

CallArgs(userId, programId, weekNumber, dayNumber, sessionId, completedAt, notes) ==
    [userId |-> userId, programId |-> programId, weekNumber |-> weekNumber,
     dayNumber |-> dayNumber, sessionId |-> sessionId, completedAt |-> completedAt,
     notes |-> notes]

\* the requests createWorkoutSession is called with: days of the caller's own
\* program, a program of somebody else, a program, a week and a day that do
\* not exist
CreateArgs ==
    { CallArgs("A", "p1", 1, 1, 0, Undef, "go"),
      CallArgs("A", "p1", 1, 2, 0, Undef, UndefStr),
      CallArgs("B", "p2", 1, 1, 0, Undef, UndefStr),
      CallArgs("B", "p1", 1, 1, 0, Undef, UndefStr),
      CallArgs("A", "p9", 1, 1, 0, Undef, UndefStr),
      CallArgs("A", "p1", 2, 1, 0, Undef, UndefStr),
      CallArgs("B", "p2", 1, 3, 0, Undef, UndefStr) }

\* the session ids a caller may ask for: those of the stored sessions and one
\* that no session has
SessionIds(table) == {table[i].id : i \in 1..Len(table)} \cup {0}

\* updates: { completedAt } and { notes }
UpdateArgs(table) ==
    { CallArgs(u, "", 0, 0, id, c[1], c[2]) :
        u \in Users, id \in SessionIds(table), c \in {<<1, UndefStr>>, <<Undef, "done">>} }

SessionArgs(table) ==
    { CallArgs(u, "", 0, 0, id, Undef, UndefStr) : u \in Users, id \in SessionIds(table) }

CallsStarted == calls[1].n + calls[2].n

InitTracking ==
    /\ heap = EmptyHeap
    /\ rawInput = <<>>
    /\ given = <<>>
    /\ pc = "tracking"
    /\ durationWeeks = Undef
    /\ weeks = <<>>
    /\ weekNum = 0
    /\ clonedWeek = 0
    /\ changeIdx = 0
    /\ program = NoProgram
    /\ AuditIdle
    /\ MatcherIdle
    /\ HydrateIdle
    /\ workout_sessions = <<>>
    /\ now = 0
    /\ calls = [p \in Callers |-> NoCall]

TrackingFrame == UNCHANGED <<patcherVars, auditVars, matcherVars, hydrateVars>>

\* the caller moves to where, with what outcome
Advance(p, to, outcome) ==
    calls' = [calls EXCEPT ![p].pc = to, ![p].outcome = outcome]

\* a caller that is not in a call makes one
CallStart(p) ==
    /\ pc = "tracking"
    /\ calls[p].pc \in {"idle", "done"}
    /\ CallsStarted < MaxCalls
    /\ \E op \in {"create", "get", "update", "delete"} :
         \E a \in (CASE op = "create" -> CreateArgs
                     [] op = "update" -> UpdateArgs(workout_sessions)
                     [] OTHER -> SessionArgs(workout_sessions)) :
            calls' = [calls EXCEPT ![p] =
                        [op |-> op, pc |-> IF op = "create" THEN "lookup" ELSE "find",
                         n |-> calls[p].n + 1, args |-> a, outcome |-> NoCall.outcome]]
    /\ UNCHANGED <<workout_sessions, now>>
    /\ TrackingFrame

\* const existingSession = await prisma.workout_sessions.findFirst(...);
\* if (existingSession) return mapToWorkoutSession(existingSession)
CreateLookup(p) ==
    /\ calls[p].op = "create" /\ calls[p].pc = "lookup"
    /\ LET hits == SessionsForDay(workout_sessions, calls[p].args)
       IN  IF hits # {}
           THEN \E i \in hits :
                    Advance(p, "done", Resolved(mapToWorkoutSession(workout_sessions[i])))
           ELSE Advance(p, "program", calls[p].outcome)
    /\ UNCHANGED <<workout_sessions, now>>
    /\ TrackingFrame

\* the program is fetched and the day is looked up in its weeks
CreateProgram(p) ==
    /\ calls[p].op = "create" /\ calls[p].pc = "program"
    /\ LET a == calls[p].args
       IN  IF a.programId \notin DOMAIN workout_programs
           THEN Advance(p, "done", Rejected("Programma di allenamento non trovato"))
           ELSE LET prog == workout_programs[a.programId]
                IN  IF prog.userId # a.userId
                    THEN Advance(p, "done",
                              Rejected("Non hai i permessi per accedere a questo programma"))
                    ELSE IF ~\E d \in prog.days : d[1] = a.weekNumber
                    THEN Advance(p, "done", Rejected("Settimana non trovata nel programma"))
                    ELSE IF <<a.weekNumber, a.dayNumber>> \notin prog.days
                    THEN Advance(p, "done", Rejected("Giorno non trovato nella settimana"))
                    ELSE Advance(p, "insert", calls[p].outcome)
    /\ UNCHANGED <<workout_sessions, now>>
    /\ TrackingFrame

\* const session = await prisma.workout_sessions.create({ data: ... })
CreateInsert(p) ==
    /\ calls[p].op = "create" /\ calls[p].pc = "insert"
    /\ LET a == calls[p].args
           row == [id |-> now + 1, userId |-> a.userId, programId |-> a.programId,
                   weekNumber |-> a.weekNumber, dayNumber |-> a.dayNumber,
                   exercises |-> SessionExercises(workout_programs[a.programId].exercises),
                   notes |-> a.notes, completedAt |-> Undef, updatedAt |-> now + 1]
       IN  /\ workout_sessions' = Append(workout_sessions, row)
           /\ Advance(p, "done", Resolved(mapToWorkoutSession(row)))
    /\ now' = now + 1
    /\ TrackingFrame


\* getWorkoutSession called on its own
GetSession(p) ==
    /\ calls[p].op = "get" /\ calls[p].pc = "find"
    /\ Advance(p, "done",
               getWorkoutSession(workout_sessions, calls[p].args.sessionId,
                                 calls[p].args.userId))
    /\ UNCHANGED <<workout_sessions, now>>
    /\ TrackingFrame

\* const session = await getWorkoutSession(sessionId, userId);
\* if (!session) throw new Error('Sessione non trovata')
SessionCheck(p, op) ==
    /\ calls[p].op = op /\ calls[p].pc = "find"
    /\ LET r == getWorkoutSession(workout_sessions, calls[p].args.sessionId,
                                  calls[p].args.userId)
       IN  CASE r.kind = "threw" -> Advance(p, "done", r)
             [] r.kind = "null" -> Advance(p, "done", Rejected("Sessione non trovata"))
             [] OTHER -> Advance(p, "write", calls[p].outcome)
    /\ UNCHANGED <<workout_sessions, now>>
    /\ TrackingFrame

UpdateCheck(p) == SessionCheck(p, "update")

\* await prisma.workout_sessions.update({ where: { id: sessionId }, data: ... });
\* update rejects when no row has the id
UpdateWrite(p) ==
    /\ calls[p].op = "update" /\ calls[p].pc = "write"
    /\ LET a == calls[p].args
           i == findUnique(workout_sessions, a.sessionId)
       IN  IF i = 0
           THEN /\ Advance(p, "done", Rejected("Record to update not found"))
                /\ UNCHANGED <<workout_sessions, now>>
           ELSE LET updated ==
                        [workout_sessions[i] EXCEPT
                            !.completedAt = IF a.completedAt # Undef THEN a.completedAt ELSE @,
                            !.notes = IF a.notes # UndefStr THEN a.notes ELSE @,
                            !.updatedAt = now + 1]
                IN  /\ workout_sessions' = [workout_sessions EXCEPT ![i] = updated]
                    /\ now' = now + 1
                    /\ Advance(p, "done", Resolved(mapToWorkoutSession(updated)))
    /\ TrackingFrame

DeleteCheck(p) == SessionCheck(p, "delete")

\* await prisma.workout_sessions.delete({ where: { id: sessionId } });
\* delete rejects when no row has the id
DeleteWrite(p) ==
    /\ calls[p].op = "delete" /\ calls[p].pc = "write"
    /\ LET i == findUnique(workout_sessions, calls[p].args.sessionId)
       IN  IF i = 0
           THEN /\ Advance(p, "done", Rejected("Record to delete does not exist"))
                /\ UNCHANGED workout_sessions
           ELSE /\ workout_sessions' =
                      [k \in 1..(Len(workout_sessions) - 1) |->
                          IF k < i THEN workout_sessions[k] ELSE workout_sessions[k + 1]]
                /\ Advance(p, "done", Resolved(NoSession))
    /\ UNCHANGED now
    /\ TrackingFrame

NextTracking ==
    \E p \in Callers :
        \/ CallStart(p)
        \/ CreateLookup(p)
        \/ CreateProgram(p)
        \/ CreateInsert(p)
        \/ GetSession(p)
        \/ UpdateCheck(p)
        \/ UpdateWrite(p)
        \/ DeleteCheck(p)
        \/ DeleteWrite(p)

SpecTracking == InitTracking /\ [][NextTracking]_vars

(* ----------------- properties of the tracking service ------------------ *)

SameDay(r, s) ==
    /\ r.userId = s.userId
    /\ r.programId = s.programId
    /\ r.weekNumber = s.weekNumber
    /\ r.dayNumber = s.dayNumber

\* C22 as stated: whatever the interleaving of createWorkoutSession calls, no two
\* stored workout sessions have the same userId, programId, weekNumber and
\* dayNumber
C22_OneSessionPerDay ==
    \A i, j \in 1..Len(workout_sessions) :
        SameDay(workout_sessions[i], workout_sessions[j]) => i = j


\* caller p takes the step of its call that reads the session
Reads(p) ==
    /\ calls[p].op \in {"get", "update", "delete"}
    /\ calls[p].pc = "find"
    /\ calls'[p].pc # "find"

\* the stored session that the call of p names, NoSession when there is none
Named(p) ==
    LET i == findUnique(workout_sessions, calls[p].args.sessionId)
    IN  IF i = 0 THEN NoSession ELSE workout_sessions[i]

\* the step left the stored row r as it was
Kept(r) ==
    \E i \in 1..Len(workout_sessions') : workout_sessions'[i] = r

\* C29: a get, update or delete naming a session stored under another userId
\* throws and writes nothing; an update or delete naming a session that is not
\* stored throws and writes nothing; and a stored session is changed or removed
\* only by the write of an update or delete called with the session's own userId
C29_SessionOwnership ==
    [][ /\ \A p \in Callers :
             Reads(p) =>
                /\ (Named(p) # NoSession /\ Named(p).userId # calls[p].args.userId) =>
                      /\ calls'[p].pc = "done"
                      /\ calls'[p].outcome.kind = "threw"
                      /\ workout_sessions' = workout_sessions
                /\ (Named(p) = NoSession /\ calls[p].op \in {"update", "delete"}) =>
                      /\ calls'[p].pc = "done"
                      /\ calls'[p].outcome.kind = "threw"
                      /\ workout_sessions' = workout_sessions
        /\ \A i \in 1..Len(workout_sessions) :
             ~Kept(workout_sessions[i]) =>
                \E p \in Callers :
                    /\ calls[p].op \in {"update", "delete"}
                    /\ calls[p].pc = "write" /\ calls'[p].pc = "done"
                    /\ calls[p].args.sessionId = workout_sessions[i].id
                    /\ calls[p].args.userId = workout_sessions[i].userId
      ]_vars

\* user B's update, delete or get of a session of user A has thrown, the session
\* is still stored, and a delete of a session that is not stored has thrown too
C29_Witness ==
    \E p, q \in Callers :
        /\ calls[p].pc = "done" /\ calls[p].op \in {"update", "delete"}
        /\ calls[p].outcome.error = "Non hai i permessi per accedere a questa sessione"
        /\ Named(p) # NoSession /\ Named(p).userId # calls[p].args.userId
        /\ calls[q].pc = "done" /\ calls[q].op = "delete"
        /\ calls[q].outcome.error = "Sessione non trovata"


(* ------------- properties of the patcher: lists of changes ------------- *)

\* the positions in cs of the changes that address what change c addresses
SameTarget(cs, c) ==
    {i \in 1..Len(cs) : cs[i].dayNumber = c.dayNumber /\ cs[i].exerciseIndex = c.exerciseIndex}

\* the last of the first n changes that addresses what c addresses and
\* supplies field f, 0 when none does
LastSupplying(cs, c, f, n) ==
    LET S == {i \in SameTarget(cs, c) : i <= n /\ cs[i][f] # Undef}
    IN  IF S = {} THEN 0 ELSE CHOOSE i \in S : \A j \in S : j <= i

\* the number of sets of the group that c addresses after the first n changes,
\* going by the last change that supplied count
CountAfter(t, cs, c, n) ==
    LET j == LastSupplying(cs, c, "count", n)
    IN  IF j = 0 THEN Len(TemplateGroup(c).sets) ELSE cs[j].count

\* the group had at least one set from the j-th change on
NeverEmptiedSince(t, cs, c, j) == \A m \in j..Len(cs) : CountAfter(t, cs, c, m) > 0

\* the field of a set that a change's field is written to
SetField == [weight |-> "weight", rpe |-> "rpe", rest |-> "restSeconds"]

\* the group of the returned week k that c addresses
ReturnedGroup(k, c) ==
    Returned(k).days[DayPos(given.week1Template, c)].setGroups[c.exerciseIndex + 1]

\* C23 as stated: in every returned week, a set group addressed by changes of the
\* week's diff has the set count of the last change that supplied count, and
\* every set of it has the reps of the last change addressing it and, for each
\* of weight, rpe and rest, the value of the last change that supplied it
C23_LastSuppliedValueWins ==
    pc = "done" =>
        \A k \in 2..Len(weeks) :
            LET cs == GivenDiff(k).changes
                t == given.week1Template
            IN  \A i \in 1..Len(cs) :
                    Addressable(t, cs[i]) =>
                        LET g == ReturnedGroup(k, cs[i])
                            last == LastSupplying(cs, cs[i], "reps", Len(cs))
                        IN  /\ Len(g.sets) = CountAfter(t, cs, cs[i], Len(cs))
                            /\ \A n \in 1..Len(g.sets) :
                                  /\ g.sets[n].reps = cs[last].reps
                                  /\ \A f \in DOMAIN SetField :
                                        LET j == LastSupplying(cs, cs[i], f, Len(cs))
                                        IN  j > 0 => g.sets[n][SetField[f]] = cs[j][f]

\* C23: the changes of a week diff are applied in list order: a set group
\* addressed by changes of the diff ends with the set count of the last change
\* that supplied count, every set with the reps of the last change addressing
\* the group and, for each of weight, rpe and rest, with the value of the last
\* change that supplied it, provided the group kept at least one set from that
\* change to the end of the list
C23_ChangesAppliedInOrder ==
    pc = "done" =>
        \A k \in 2..Len(weeks) :
            LET cs == GivenDiff(k).changes
                t == given.week1Template
            IN  \A i \in 1..Len(cs) :
                    Addressable(t, cs[i]) =>
                        LET g == ReturnedGroup(k, cs[i])
                            last == LastSupplying(cs, cs[i], "reps", Len(cs))
                        IN  /\ Len(g.sets) = CountAfter(t, cs, cs[i], Len(cs))
                            /\ \A n \in 1..Len(g.sets) :
                                  /\ g.sets[n].reps = cs[last].reps
                                  /\ \A f \in DOMAIN SetField :
                                        LET j == LastSupplying(cs, cs[i], f, Len(cs))
                                        IN  (j > 0 /\ NeverEmptiedSince(t, cs, cs[i], j)) =>
                                                g.sets[n][SetField[f]] = cs[j][f]

\* two changes for the same group: the first supplies a weight, the second
\* omits it, has other reps and regenerates the sets; the new sets carry the
\* weight of the first and the reps of the second
C23_Witness ==
    /\ pc = "done"
    /\ Len(weeks) = 2
    /\ LET cs == GivenDiff(2).changes
       IN  /\ Len(cs) = 2
           /\ Addressable(given.week1Template, cs[1])
           /\ SameTarget(cs, cs[1]) = {1, 2}
           /\ cs[1].weight # Undef /\ cs[2].weight = Undef
           /\ cs[1].reps # cs[2].reps
           /\ cs[2].count # Undef
           /\ LET g == ReturnedGroup(2, cs[1])
              IN  /\ Len(g.sets) = cs[2].count
                  /\ Len(g.sets) # Len(TemplateGroup(cs[1]).sets)
                  /\ \A n \in 1..Len(g.sets) :
                        g.sets[n].weight = cs[1].weight /\ g.sets[n].reps = cs[2].reps


(* --------------- properties of the patcher: what a change touches ------ *)

\* the set group with its sets left out
WithoutSets(g) == [g EXCEPT !.sets = <<>>]

\* the week under construction before and after the step differ at most in the
\* sets of the group at position j of the day at position i
OnlySetsOf(i, j) ==
    LET b == ReadWeek(heap, clonedWeek)
        a == ReadWeek(heap', clonedWeek)
    IN  /\ [a EXCEPT !.days = <<>>] = [b EXCEPT !.days = <<>>]
        /\ Len(a.days) = Len(b.days)
        /\ \A x \in 1..Len(b.days) :
              /\ [a.days[x] EXCEPT !.setGroups = <<>>] = [b.days[x] EXCEPT !.setGroups = <<>>]
              /\ Len(a.days[x].setGroups) = Len(b.days[x].setGroups)
              /\ \A y \in 1..Len(b.days[x].setGroups) :
                    IF x = i /\ y = j
                    THEN WithoutSets(a.days[x].setGroups[y]) = WithoutSets(b.days[x].setGroups[y])
                    ELSE a.days[x].setGroups[y] = b.days[x].setGroups[y]

\* C24: applying a change with dayNumber d and exerciseIndex k changes nothing
\* but the sets of the set group at position k of the day whose dayNumber is d,
\* wherever that day is in days: the other days, the other set groups of that
\* day, the group's exerciseId, exerciseName, order, notes and technicalCues,
\* the fields of the day and of the week, and the template and the weeks
\* assembled before stay as they were
C24_ChangeTouchesOnlyItsGroup ==
    [][ (ApplyingChange /\ Addressable(given.week1Template, StepChange)) =>
            /\ OnlySetsOf(DayPos(given.week1Template, StepChange), StepChange.exerciseIndex + 1)
            /\ ReadWeek(heap', TemplateAddr) = ReadWeek(heap, TemplateAddr)
            /\ \A k \in 1..Len(weeks) : ReadWeek(heap', weeks[k]) = ReadWeek(heap, weeks[k])
      ]_vars

\* a change for day 1 has just rewritten the sets of a group of the day with
\* dayNumber 1, which is the second day of a template whose first day has
\* dayNumber 3; the group has notes and technical cues, and the other groups
\* of the week are those of the template
C24_Witness ==
    /\ pc = "diff"
    /\ changeIdx = 2
    /\ LET c == given.progressionDiffs[weekNum].changes[1]
           t == given.week1Template
       IN  /\ Addressable(t, c)
           /\ c.dayNumber = 1
           /\ DayPos(t, c) = 2
           /\ t.days[1].dayNumber = 3
           /\ TemplateGroup(c).notes # UndefStr
           /\ TemplateGroup(c).technicalCues # <<>>
           /\ TargetGroup(heap, c).sets # TemplateGroup(c).sets
           /\ WithoutSets(TargetGroup(heap, c)) = WithoutSets(TemplateGroup(c))
           /\ ReadWeek(heap, clonedWeek).days[1] = t.days[1]


\* the step applies a change that regenerates the sets of the group it addresses
Regenerating ==
    /\ ApplyingChange
    /\ Addressable(given.week1Template, StepChange)
    /\ StepChange.count # Undef
    /\ StepChange.count # Len(TargetGroup(heap, StepChange).sets)

\* C30: after a change has regenerated the sets of a group, the sets differ
\* from one another in setNumber only, and when the group had sets each new set
\* is the former first set with its setNumber, the reps of the change and the
\* weight, rpe and rest that the change supplies: nothing of the former second
\* and later sets is left, whether the change names the field or not
C30_RegeneratedSetsAreUniform ==
    [][ Regenerating =>
            LET b == TargetGroup(heap, StepChange)
                a == TargetGroup(heap', StepChange)
                c == StepChange
            IN  /\ \A n, m \in 1..Len(a.sets) :
                      [a.sets[n] EXCEPT !.setNumber = 0] = [a.sets[m] EXCEPT !.setNumber = 0]
                /\ Len(b.sets) > 0 =>
                      \A n \in 1..Len(a.sets) :
                          a.sets[n] =
                            [b.sets[1] EXCEPT
                                !.setNumber = n,
                                !.reps = c.reps,
                                !.weight = IF c.weight # Undef THEN c.weight ELSE @,
                                !.rpe = IF c.rpe # Undef THEN c.rpe ELSE @,
                                !.restSeconds = IF c.rest # Undef THEN c.rest ELSE @]
      ]_vars

\* a change without a weight has just regenerated, to two sets, a group whose
\* three sets had different weights, rpe and tempo: both new sets have the
\* weight and the tempo of the former first set
C30_Witness ==
    /\ pc = "diff"
    /\ changeIdx = 2
    /\ LET c == given.progressionDiffs[weekNum].changes[1]
       IN  /\ Addressable(given.week1Template, c)
           /\ c.count = 2 /\ c.weight = Undef
           /\ LET t == TemplateGroup(c)
                  a == TargetGroup(heap, c)
              IN  /\ Len(t.sets) = 3
                  /\ t.sets[2].weight # t.sets[1].weight
                  /\ t.sets[2].tempo # t.sets[1].tempo
                  /\ Len(a.sets) = 2
                  /\ \A n \in 1..2 : /\ a.sets[n].weight = t.sets[1].weight
                                     /\ a.sets[n].tempo = t.sets[1].tempo
                                     /\ a.sets[n].setNumber = n


(* ------------ properties of the patcher: fields that are ignored ------- *)

\* the diff with its focus blanked and, in every change, setGroupIndex set to 0
\* and weightLbs and intensityPercent taken out
WithoutAdvisory(diff) ==
    [diff EXCEPT
        !.focus = "",
        !.changes = [i \in 1..Len(@) |->
                        [@[i] EXCEPT !.setGroupIndex = 0, !.weightLbs = Undef,
                                     !.intensityPercent = Undef]]]

\* C25: the weeks returned are the weeks that the same template gives with the
\* diffs stripped of focus, setGroupIndex, weightLbs and intensityPercent, so
\* that two diff maps differing in those fields only give the same weeks
C25_AdvisoryFieldsIgnored ==
    pc = "done" =>
        /\ Len(weeks) >= 1 => Returned(1) = IsolatedWeek1(given.week1Template)
        /\ \A k \in 2..Len(weeks) :
              Returned(k) = IsolatedWeek(given.week1Template, WithoutAdvisory(GivenDiff(k)), k)

\* a diff with a focus whose change has setGroupIndex 1, a weightLbs and an
\* intensityPercent but no weight has been applied and has changed the week
C25_Witness ==
    /\ pc = "done"
    /\ Len(weeks) = 2
    /\ GivenDiff(2).focus = "volume"
    /\ Len(GivenDiff(2).changes) = 1
    /\ LET c == GivenDiff(2).changes[1]
       IN  /\ c.setGroupIndex = 1 /\ c.weightLbs = 143 /\ c.intensityPercent = 80
           /\ c.weight = Undef
           /\ Addressable(given.week1Template, c)
           /\ Len(TemplateGroup(c).sets) > 0
    /\ Returned(2).days # given.week1Template.days


(* ------------------ properties of match: wasCorrection ----------------- *)

\* C26 as stated: a result of the exact-name, normalized-name, fuzzy or
\* substring tier has wasCorrection true exactly when a providedId was given to
\* match; a result of the valid-ID tier has it false, a result of the category
\* fallback or of the last resort has it true; and originalId is the
\* providedId that was given
C26_WasCorrectionIffIdSupplied ==
    MatchReturned =>
        /\ TierOf \in 2..5 => (result.wasCorrection <=> args.providedId # UndefStr)
        /\ TierOf = 1 => ~result.wasCorrection
        /\ TierOf \in {6, 7} => result.wasCorrection
        /\ result.originalId = args.providedId


(* ------------- properties of processSetGroups: what it writes ---------- *)

\* C27 as stated: after processSetGroups the set groups it was given carry the
\* matched exerciseId and exerciseName, the ones of the groups it returns
C27_SuppliedGroupsRewritten ==
    ProcessReturned =>
        \A i \in 1..Len(args.setGroups) :
            /\ args.setGroups[i].exerciseId = result.correctedSetGroups[i].exerciseId
            /\ args.setGroups[i].exerciseName = result.correctedSetGroups[i].exerciseName

\* the set group with its exerciseId and exerciseName blanked
WithoutIdentity(g) == [g EXCEPT !.exerciseId = "", !.exerciseName = <<>>]

\* C27: every round of processSetGroups leaves the set groups it was given, the
\* groups pushed before, the catalog and the three lookup indices as they were,
\* and pushes one new group that is the given one with exerciseId and
\* exerciseName replaced by those of the match and every other field (order,
\* sets, notes) the same; the return changes none of them either
C27_ProcessWritesOnlyItsCopies ==
    [][ mpc = "processing" =>
            /\ args' = args
            /\ <<catalog', catalogByName', catalogByNormalizedName', catalogById'>>
                 = <<catalog, catalogByName, catalogByNormalizedName, catalogById>>
            /\ \A i \in 1..Len(correctedSetGroups) :
                  correctedSetGroups'[i] = correctedSetGroups[i]
            /\ Len(correctedSetGroups') # Len(correctedSetGroups) =>
                  LET n == Len(correctedSetGroups')
                      g == args.setGroups[n]
                      out == correctedSetGroups'[n]
                      r == GroupMatch(This, g)
                  IN  /\ n = Len(correctedSetGroups) + 1
                      /\ WithoutIdentity(out) = WithoutIdentity(g)
                      /\ out.exerciseId = r.exerciseId
                      /\ out.exerciseName = r.exerciseName
                      /\ out.exerciseId \in CatalogIds
            /\ mpc' = "returned" /\ result'.outcome = "processed" =>
                  result'.correctedSetGroups = correctedSetGroups
      ]_vars

\* processSetGroups has returned two groups, one of them with an id and a name
\* other than the ones given, while the group given still has the unknown id
\* and its own name, and its sets and notes are in the group returned
C27_Witness ==
    /\ ProcessReturned
    /\ Len(args.setGroups) = 2
    /\ \E i \in 1..2 :
          LET g == args.setGroups[i]
              out == result.correctedSetGroups[i]
          IN  /\ g.exerciseId = "bogus"
              /\ out.exerciseId # g.exerciseId
              /\ out.exerciseName # g.exerciseName
              /\ out.sets = g.sets /\ out.sets # <<>>
              /\ out.notes = g.notes


(* ------------------ one-rep maxes given to the transform ---------------- *)

\* the one-rep max the transform holds for an exerciseId, Undef if none
OneRepMaxOf(id) ==
    LET m == oneRepMaxArrayToMap(rawInput.userOneRepMaxes)
    IN  IF id \in DOMAIN m THEN m[id] ELSE Undef

\* the increment the weights are rounded to, in hundredths of a kilogram
IncrementGiven ==
    IF rawInput.weightIncrement # Undef /\ rawInput.weightIncrement > 0
    THEN rawInput.weightIncrement ELSE DefaultWeightIncrement

\* the set groups of the returned program
ProgramGroups ==
    UNION {GroupsOf(heap, program.weeks[k]) : k \in 1..Len(program.weeks)}

\* C28: given a non-empty userOneRepMaxes, every set with an intensityPercent
\* p > 0 of a returned set group has the weight p/100 * 1RM rounded to the
\* nearest weightIncrement if the group's exerciseId has a 1RM > 0 and the
\* weight 0 if it has none, and the weeks that were passed on are not the
\* objects that are returned.
C28_WeightsFromIntensityPercent ==
    (pc = "done" /\ Len(rawInput.userOneRepMaxes) > 0) =>
        /\ \A a \in ProgramGroups :
            LET g == ReadGroup(heap, a)
                orm == OneRepMaxOf(g.exerciseId)
            IN  \A i \in 1..Len(g.sets) :
                    g.sets[i].intensityPercent # Undef /\ g.sets[i].intensityPercent > 0 =>
                        IF orm # Undef /\ orm > 0
                        THEN g.sets[i].weight * 100 =
                                RoundDiv(g.sets[i].intensityPercent * orm, IncrementGiven)
                                    * IncrementGiven
                        ELSE g.sets[i].weight = 0
        /\ \A k \in 1..Len(weeks) : program.weeks[k] # weeks[k]

====
